---- MODULE Spec2Model ----
(***************************************************************************)
(* A model of the WID / HLC-WID codec and generators of c/src/wid.h.       *)
(*                                                                         *)
(* C strings are TLA+ strings; the character at C index i of s is          *)
(* CharAt(s, i), and the terminating NUL is the empty string.              *)
(*                                                                         *)
(* An int64 tick t is held as the pair <<t div D, t mod D>> where D is the *)
(* number of ticks in a day (86400 for sec, 86400000 for ms), because the  *)
(* ticks of interest exceed the integers TLC can hold.  Order, equality,   *)
(* +1 and the sign test on the pair are those of the int64 it stands for.  *)
(***************************************************************************)
EXTENDS Integers, Sequences, FiniteSets, TLC

VARIABLES
    in_s, in_W, in_Z, in_unit,   \* codec: the arguments of validate / parse
    res,                         \* codec: the result of each call made so far
    wg,                          \* the WID generator (wid_gen_t)
    wout,                        \* WID: the last call and the ID it emitted
    hg,                          \* the HLC generators (hlc_wid_gen_t), by instance
    hout,                        \* HLC: the last call made
    hmsg,                        \* HLC: the last ID emitted, its sender and stamp
    hseen,                       \* HLC: per instance, greatest peer stamp observed
    st,                          \* the paced stream (wid_async_*_stream_t)
    sout,                        \* stream: the last poll, the caller's buffer
    bulk,                        \* bulk: the last next_n call and its replay by next
    sql                          \* SQL state: the wid_state row, the allocating processes

vars == <<in_s, in_W, in_Z, in_unit, res, wg, wout, hg, hout, hmsg, hseen, st, sout,
          bulk, sql>>

codecVars == <<in_s, in_W, in_Z, in_unit, res>>
widVars == <<wg, wout>>
hlcVars == <<hg, hout, hmsg, hseen>>
hlcGenVars == <<hg, hmsg, hseen>>
streamVars == <<st, sout>>

(***************************************************************************)
(* Program constants                                                       *)
(***************************************************************************)
WID_DEFAULT_W == 4
WID_DEFAULT_Z == 6
WID_MAX_W == 18
WID_MAX_Z == 64
NODE_BUF == 64      \* sizeof(node) in hlc_wid_gen_t and parsed_hlc_wid_t
WID_TIME_SEC == "sec"
WID_TIME_MS == "ms"
Units == {WID_TIME_SEC, WID_TIME_MS}

\* TLC's integers are 32 bits wide.  An int64_t field holds in the model the
\* value it holds in the program; the two ends of the int64_t range are placed
\* at the ends of TLC's range, which keeps the order of the values and the
\* effect of + 1 on them, the overflow at INT64_MAX included.
INT64_MAX == 2147483647
INT64_MIN == -INT64_MAX - 1

NUL == ""
NULL == "<NULL>"

(***************************************************************************)
(* Characters and strings                                                  *)
(***************************************************************************)
CharAt(s, i) == IF i >= 0 /\ i < Len(s) THEN SubSeq(s, i + 1, i + 1) ELSE NUL

\* the C string starting at offset i of s (s + i)
StrFrom(s, i) == IF i >= Len(s) THEN "" ELSE SubSeq(s, i + 1, Len(s))

StrChars(s) == {CharAt(s, i) : i \in 0..(Len(s) - 1)}

DigitStr == "0123456789"
LowerStr == "abcdefghijklmnopqrstuvwxyz"
UpperStr == "ABCDEFGHIJKLMNOPQRSTUVWXYZ"

DigitChars == StrChars(DigitStr)
LowerChars == StrChars(LowerStr)
UpperChars == StrChars(UpperStr)
HexLetterChars == StrChars("abcdef")

wid_is_digit(c) == c \in DigitChars

wid_is_alpha(c) == c \in LowerChars \/ c \in UpperChars

wid_is_alnum(c) == wid_is_digit(c) \/ wid_is_alpha(c)

wid_is_lower_hex(c) == c \in DigitChars \/ c \in HexLetterChars

wid_is_node_char(c) == wid_is_alnum(c) \/ c = "_"

DigitVal(c) == CHOOSE d \in 0..9 : CharAt(DigitStr, d) = c

\* strchr(s + from, ch): the index in s of the first ch at or after from, or -1
StrChr(s, from, ch) ==
    LET hits == {i \in from..(Len(s) - 1) : CharAt(s, i) = ch}
    IN  IF hits = {} THEN -1 ELSE CHOOSE i \in hits : \A j \in hits : i <= j

(***************************************************************************)
(* Calendar validity                                                       *)
(***************************************************************************)
\* wid_is_leap_year without the century rule
wid_is_leap_year_julian(year) == (year % 4) = 0

wid_is_leap_year(year) ==
    IF year % 400 = 0 THEN TRUE
    ELSE IF year % 100 = 0 THEN FALSE
    ELSE (year % 4) = 0

days_in_month == <<31, 28, 31, 30, 31, 30, 31, 31, 30, 31, 30, 31>>

wid_valid_ymdhms(year, month, day, hour, minute, second) ==
    IF month < 1 \/ month > 12 THEN FALSE
    ELSE IF hour < 0 \/ hour > 23 THEN FALSE
    ELSE IF minute < 0 \/ minute > 59 THEN FALSE
    ELSE IF second < 0 \/ second > 59 THEN FALSE
    ELSE LET dim == IF month = 2 /\ wid_is_leap_year(year) THEN 29
                    ELSE days_in_month[month]
         IN  day >= 1 /\ day <= dim

\* wid_valid_node taking '-' for a node character
wid_valid_node_hyphen(node) ==
    /\ node # NULL
    /\ Len(node) > 0
    /\ \A i \in 0..(Len(node) - 1) :
           wid_is_node_char(CharAt(node, i)) \/ CharAt(node, i) = "-"

wid_valid_node(node) ==
    /\ node # NULL
    /\ Len(node) > 0
    /\ \A i \in 0..(Len(node) - 1) : wid_is_node_char(CharAt(node, i))

\* wid_valid_suffix without the length test n != Z
wid_valid_suffix_anylen(suffix, Z) ==
    IF CharAt(suffix, 0) = NUL THEN TRUE
    ELSE IF CharAt(suffix, 0) # "-" THEN FALSE
    ELSE IF Z <= 0 THEN FALSE
    ELSE LET pad == StrFrom(suffix, 1)
         IN  \A i \in 0..(Len(pad) - 1) : wid_is_lower_hex(CharAt(pad, i))

\* wid_valid_suffix without the lowercase-hex test
wid_valid_suffix_nohex(suffix, Z) ==
    IF CharAt(suffix, 0) = NUL THEN TRUE
    ELSE IF CharAt(suffix, 0) # "-" THEN FALSE
    ELSE IF Z <= 0 THEN FALSE
    ELSE Len(StrFrom(suffix, 1)) = Z

\* wid_valid_suffix without the test Z <= 0
wid_valid_suffix_zeropad(suffix, Z) ==
    IF CharAt(suffix, 0) = NUL THEN TRUE
    ELSE IF CharAt(suffix, 0) # "-" THEN FALSE
    ELSE LET pad == StrFrom(suffix, 1)
             n == Len(pad)
         IN  IF n # Z THEN FALSE
             ELSE \A i \in 0..(n - 1) : wid_is_lower_hex(CharAt(pad, i))

wid_valid_suffix(suffix, Z) ==
    IF CharAt(suffix, 0) = NUL THEN TRUE
    ELSE IF CharAt(suffix, 0) # "-" THEN FALSE
    ELSE IF Z <= 0 THEN FALSE
    ELSE LET pad == StrFrom(suffix, 1)
             n == Len(pad)
         IN  IF n # Z THEN FALSE
             ELSE \A i \in 0..(n - 1) : wid_is_lower_hex(CharAt(pad, i))

wid_timestamp_len(unit) == IF unit = WID_TIME_MS THEN 18 ELSE 15

RECURSIVE ParseDigitsFrom(_, _, _, _)
ParseDigitsFrom(s, off, n, v) ==
    IF n = 0 THEN v
    ELSE IF ~wid_is_digit(CharAt(s, off)) THEN -1
    ELSE ParseDigitsFrom(s, off + 1, n - 1, (v * 10) + DigitVal(CharAt(s, off)))

\* wid_parse_digits_i64(s + off, n)
wid_parse_digits_i64(s, off, n) == ParseDigitsFrom(s, off, n, 0)

TsFail == [ok |-> FALSE, year |-> 0, month |-> 0, day |-> 0, hour |-> 0,
           minute |-> 0, second |-> 0, millisecond |-> 0]

wid_parse_timestamp(s, unit) ==
    LET ts_len == wid_timestamp_len(unit)
        y == wid_parse_digits_i64(s, 0, 4)
        mo == wid_parse_digits_i64(s, 4, 2)
        d == wid_parse_digits_i64(s, 6, 2)
        h == wid_parse_digits_i64(s, 9, 2)
        mi == wid_parse_digits_i64(s, 11, 2)
        se == wid_parse_digits_i64(s, 13, 2)
        ms == IF unit = WID_TIME_MS THEN wid_parse_digits_i64(s, 15, 3) ELSE 0
    IN  IF s = NULL THEN TsFail
        ELSE IF CharAt(s, 8) # "T" THEN TsFail
        ELSE IF \E i \in 0..7 : ~wid_is_digit(CharAt(s, i)) THEN TsFail
        ELSE IF \E i \in 9..14 : ~wid_is_digit(CharAt(s, i)) THEN TsFail
        ELSE IF ~wid_valid_ymdhms(y, mo, d, h, mi, se) THEN TsFail
        ELSE IF unit = WID_TIME_MS /\ (\E i \in 15..17 : ~wid_is_digit(CharAt(s, i)))
             THEN TsFail
        ELSE IF unit = WID_TIME_MS /\ (ms < 0 \/ ms > 999) THEN TsFail
        ELSE IF CharAt(s, ts_len) # "." THEN TsFail
        ELSE [ok |-> TRUE, year |-> y, month |-> mo, day |-> d, hour |-> h,
              minute |-> mi, second |-> se, millisecond |-> ms]

(***************************************************************************)
(* Validators                                                              *)
(***************************************************************************)
\* wid_validate_ex taking the timestamp in either width, whatever the unit
wid_validate_ex_anyunit(wid, W, Z, unit) ==
    \E u \in Units :
        LET ts_len == wid_timestamp_len(u)
            n == Len(wid)
            base_len == ts_len + 1 + W + 1
        IN  IF wid = NULL \/ W <= 0 \/ Z < 0 THEN FALSE
            ELSE IF W > WID_MAX_W \/ Z > WID_MAX_Z THEN FALSE
            ELSE IF n < base_len THEN FALSE
            ELSE IF ~wid_parse_timestamp(wid, u).ok THEN FALSE
            ELSE IF CharAt(wid, ts_len + 1 + W) # "Z" THEN FALSE
            ELSE IF \E i \in (ts_len + 1)..(ts_len + W) : ~wid_is_digit(CharAt(wid, i))
                 THEN FALSE
            ELSE wid_valid_suffix(StrFrom(wid, base_len), Z)

\* wid_validate_ex without the test against WID_MAX_W and WID_MAX_Z
wid_validate_ex_nomax(wid, W, Z, unit) ==
    LET ts_len == wid_timestamp_len(unit)
        n == Len(wid)
        base_len == ts_len + 1 + W + 1
    IN  IF wid = NULL \/ W <= 0 \/ Z < 0 THEN FALSE
        ELSE IF n < base_len THEN FALSE
        ELSE IF ~wid_parse_timestamp(wid, unit).ok THEN FALSE
        ELSE IF CharAt(wid, ts_len + 1 + W) # "Z" THEN FALSE
        ELSE IF \E i \in (ts_len + 1)..(ts_len + W) : ~wid_is_digit(CharAt(wid, i))
             THEN FALSE
        ELSE wid_valid_suffix(StrFrom(wid, base_len), Z)

wid_validate_ex(wid, W, Z, unit) ==
    LET ts_len == wid_timestamp_len(unit)
        n == Len(wid)
        base_len == ts_len + 1 + W + 1
    IN  IF wid = NULL \/ W <= 0 \/ Z < 0 THEN FALSE
        ELSE IF W > WID_MAX_W \/ Z > WID_MAX_Z THEN FALSE
        ELSE IF n < base_len THEN FALSE
        ELSE IF ~wid_parse_timestamp(wid, unit).ok THEN FALSE
        ELSE IF CharAt(wid, ts_len + 1 + W) # "Z" THEN FALSE
        ELSE IF \E i \in (ts_len + 1)..(ts_len + W) : ~wid_is_digit(CharAt(wid, i))
             THEN FALSE
        ELSE wid_valid_suffix(StrFrom(wid, base_len), Z)

\* hlc_wid_validate_ex without the test node_len <= 0
hlc_wid_validate_ex_emptynode(wid, W, Z, unit) ==
    LET ts_len == wid_timestamp_len(unit)
        n == Len(wid)
        prefix_len == ts_len + 1 + W + 1
        node_start == prefix_len + 1
        \* the scan stops at the first '-' or at the first non-node character
        stops == {i \in node_start..(n - 1) :
                      CharAt(wid, i) = "-" \/ ~wid_is_node_char(CharAt(wid, i))}
        stop == IF stops = {} THEN -1
                ELSE CHOOSE i \in stops : \A j \in stops : i <= j
        suffix_dash == IF stop # -1 /\ CharAt(wid, stop) = "-" THEN stop ELSE -1
        node_len == IF suffix_dash # -1 THEN suffix_dash - node_start
                    ELSE n - node_start
    IN  IF wid = NULL \/ W <= 0 \/ Z < 0 THEN FALSE
        ELSE IF W > WID_MAX_W \/ Z > WID_MAX_Z THEN FALSE
        ELSE IF n < prefix_len + 2 THEN FALSE
        ELSE IF ~wid_parse_timestamp(wid, unit).ok THEN FALSE
        ELSE IF CharAt(wid, ts_len + 1 + W) # "Z" THEN FALSE
        ELSE IF CharAt(wid, ts_len + 1 + W + 1) # "-" THEN FALSE
        ELSE IF \E i \in (ts_len + 1)..(ts_len + W) : ~wid_is_digit(CharAt(wid, i))
             THEN FALSE
        ELSE IF stop # -1 /\ CharAt(wid, stop) # "-" THEN FALSE
        ELSE IF suffix_dash = -1 THEN TRUE
        ELSE wid_valid_suffix(StrFrom(wid, suffix_dash), Z)

hlc_wid_validate_ex(wid, W, Z, unit) ==
    LET ts_len == wid_timestamp_len(unit)
        n == Len(wid)
        prefix_len == ts_len + 1 + W + 1
        node_start == prefix_len + 1
        \* the scan stops at the first '-' or at the first non-node character
        stops == {i \in node_start..(n - 1) :
                      CharAt(wid, i) = "-" \/ ~wid_is_node_char(CharAt(wid, i))}
        stop == IF stops = {} THEN -1
                ELSE CHOOSE i \in stops : \A j \in stops : i <= j
        suffix_dash == IF stop # -1 /\ CharAt(wid, stop) = "-" THEN stop ELSE -1
        node_len == IF suffix_dash # -1 THEN suffix_dash - node_start
                    ELSE n - node_start
    IN  IF wid = NULL \/ W <= 0 \/ Z < 0 THEN FALSE
        ELSE IF W > WID_MAX_W \/ Z > WID_MAX_Z THEN FALSE
        ELSE IF n < prefix_len + 2 THEN FALSE
        ELSE IF ~wid_parse_timestamp(wid, unit).ok THEN FALSE
        ELSE IF CharAt(wid, ts_len + 1 + W) # "Z" THEN FALSE
        ELSE IF CharAt(wid, ts_len + 1 + W + 1) # "-" THEN FALSE
        ELSE IF \E i \in (ts_len + 1)..(ts_len + W) : ~wid_is_digit(CharAt(wid, i))
             THEN FALSE
        ELSE IF stop # -1 /\ CharAt(wid, stop) # "-" THEN FALSE
        ELSE IF node_len <= 0 THEN FALSE
        ELSE IF suffix_dash = -1 THEN TRUE
        ELSE wid_valid_suffix(StrFrom(wid, suffix_dash), Z)

(***************************************************************************)
(* Parsers.  A call yields its return value and the view it leaves in out. *)
(***************************************************************************)
\* parsed_wid_t after memset(out, 0, sizeof(*out))
ZeroWid == [raw |-> NULL, year |-> 0, month |-> 0, day |-> 0, hour |-> 0,
            minute |-> 0, second |-> 0, millisecond |-> 0, sequence |-> 0,
            has_padding |-> FALSE, padding |-> ""]

\* parsed_hlc_wid_t after memset(out, 0, sizeof(*out))
ZeroHlc == [raw |-> NULL, year |-> 0, month |-> 0, day |-> 0, hour |-> 0,
            minute |-> 0, second |-> 0, millisecond |-> 0,
            logical_counter |-> 0, node |-> "", has_padding |-> FALSE,
            padding |-> ""]

WithTs(out, ts) ==
    [out EXCEPT !.year = ts.year, !.month = ts.month, !.day = ts.day,
                !.hour = ts.hour, !.minute = ts.minute, !.second = ts.second,
                !.millisecond = ts.millisecond]

wid_parse_ex(wid, W, Z, unit) ==
    LET ts_len == wid_timestamp_len(unit)
        base_len == ts_len + 1 + W + 1
        ts == wid_parse_timestamp(wid, unit)
        o1 == WithTs(ZeroWid, ts)
        o2 == [o1 EXCEPT !.sequence = wid_parse_digits_i64(wid, ts_len + 1, W)]
        suffix == StrFrom(wid, base_len)
        o3 == [o2 EXCEPT !.raw = wid]
        pad == StrFrom(suffix, 1)
    IN  IF ~wid_validate_ex(wid, W, Z, unit) THEN [ret |-> FALSE, out |-> ZeroWid]
        ELSE IF ~ts.ok THEN [ret |-> FALSE, out |-> ZeroWid]
        ELSE IF o2.sequence < 0 THEN [ret |-> FALSE, out |-> o2]
        ELSE IF CharAt(suffix, 0) = NUL THEN [ret |-> TRUE, out |-> o3]
        ELSE IF Len(pad) > WID_MAX_Z THEN [ret |-> FALSE, out |-> o3]
        ELSE [ret |-> TRUE,
              out |-> [o3 EXCEPT !.padding = pad, !.has_padding = TRUE]]

hlc_wid_parse_ex(wid, W, Z, unit) ==
    LET ts_len == wid_timestamp_len(unit)
        prefix_len == ts_len + 1 + W + 1
        ts == wid_parse_timestamp(wid, unit)
        o1 == WithTs(ZeroHlc, ts)
        o2 == [o1 EXCEPT !.logical_counter =
                             wid_parse_digits_i64(wid, ts_len + 1, W)]
        node_start == prefix_len + 1
        suffix_dash == StrChr(wid, node_start, "-")
        node_len == IF suffix_dash # -1 THEN suffix_dash - node_start
                    ELSE Len(wid) - node_start
        o3 == [o2 EXCEPT !.node = SubSeq(wid, node_start + 1, node_start + node_len),
                         !.raw = wid]
        pad == StrFrom(wid, suffix_dash + 1)
    IN  IF ~hlc_wid_validate_ex(wid, W, Z, unit) THEN [ret |-> FALSE, out |-> ZeroHlc]
        ELSE IF ~ts.ok THEN [ret |-> FALSE, out |-> ZeroHlc]
        ELSE IF o2.logical_counter < 0 THEN [ret |-> FALSE, out |-> o2]
        ELSE IF node_len = 0 \/ node_len >= NODE_BUF THEN [ret |-> FALSE, out |-> o2]
        ELSE IF suffix_dash = -1 THEN [ret |-> TRUE, out |-> o3]
        ELSE IF Len(pad) > WID_MAX_Z THEN [ret |-> FALSE, out |-> o3]
        ELSE [ret |-> TRUE,
              out |-> [o3 EXCEPT !.padding = pad, !.has_padding = TRUE]]

(***************************************************************************)
(* Ticks: the int64 t is the pair <<t div D, t mod D>>, D = TicksPerDay.   *)
(***************************************************************************)
TicksPerDay(unit) == IF unit = WID_TIME_MS THEN 86400000 ELSE 86400

TickZero == <<0, 0>>

\* a < b
TickLess(a, b) == a[1] < b[1] \/ (a[1] = b[1] /\ a[2] < b[2])

\* t + 1
TickInc(t, unit) ==
    IF t[2] + 1 = TicksPerDay(unit) THEN <<t[1] + 1, 0>> ELSE <<t[1], t[2] + 1>>

\* t < 0
TickNegative(t) == t[1] < 0

\* (pt1, lc1) < (pt2, lc2) in lexicographic order
LexLess(pt1, lc1, pt2, lc2) == TickLess(pt1, pt2) \/ (pt1 = pt2 /\ lc1 < lc2)

(***************************************************************************)
(* Formatting                                                              *)
(***************************************************************************)
RECURSIVE DecStr(_)
DecStr(n) ==
    IF n < 10 THEN CharAt(DigitStr, n)
    ELSE DecStr(n \div 10) \o CharAt(DigitStr, n % 10)

RECURSIVE ZeroFill(_, _)
ZeroFill(str, w) == IF Len(str) >= w THEN str ELSE ZeroFill("0" \o str, w)

\* printf("%0*lld", w, v)
fmt_zero_pad(v, w) ==
    IF v < 0 THEN "-" \o ZeroFill(DecStr(0 - v), w - 1) ELSE ZeroFill(DecStr(v), w)

\* gmtime_r: the broken-down UTC time of day number z since 1970-01-01 and
\* second-of-day sod (proleptic Gregorian calendar)
gmtime_r(z0, sod) ==
    LET z == z0 + 719468
        era == z \div 146097
        doe == z - era * 146097
        yoe == (doe - doe \div 1460 + doe \div 36524 - doe \div 146096) \div 365
        doy == doe - (365 * yoe + yoe \div 4 - yoe \div 100)
        mp == (5 * doy + 2) \div 153
        d == doy - (153 * mp + 2) \div 5 + 1
        m == IF mp < 10 THEN mp + 3 ELSE mp - 9
        y == yoe + era * 400 + (IF m <= 2 THEN 1 ELSE 0)
    IN  [tm_year |-> y, tm_mon |-> m, tm_mday |-> d, tm_hour |-> sod \div 3600,
         tm_min |-> (sod % 3600) \div 60, tm_sec |-> sod % 60]

\* strftime(base, sizeof(base), "%Y%m%dT%H%M%S", tm)
strftime_base(tm) ==
    fmt_zero_pad(tm.tm_year, 4) \o fmt_zero_pad(tm.tm_mon, 2)
        \o fmt_zero_pad(tm.tm_mday, 2) \o "T" \o fmt_zero_pad(tm.tm_hour, 2)
        \o fmt_zero_pad(tm.tm_min, 2) \o fmt_zero_pad(tm.tm_sec, 2)

\* the seconds and milliseconds wid_fmt_tick splits tick into
wid_fmt_tick_split(unit, tick) ==
    LET neg == TickNegative(tick)
        \* sec = tick / 1000 truncates toward zero; ms = tick % 1000, +1000 if < 0
        floorSec == <<tick[1], tick[2] \div 1000>>
    IN  [sec |-> IF unit = WID_TIME_MS
                 THEN IF neg /\ tick[2] % 1000 # 0
                      THEN TickInc(floorSec, WID_TIME_SEC) ELSE floorSec
                 ELSE tick,
         ms |-> IF unit = WID_TIME_MS THEN tick[2] % 1000 ELSE 0]

wid_fmt_tick(unit, tick) ==
    LET sec == wid_fmt_tick_split(unit, tick).sec
        ms == wid_fmt_tick_split(unit, tick).ms
        base == strftime_base(gmtime_r(sec[1], sec[2]))
    IN  IF unit = WID_TIME_MS THEN base \o fmt_zero_pad(ms, 3) ELSE base

\* 10^n for n <= 18 and INT64_MAX beyond; the powers above 10^9, which TLC's
\* integers cannot hold, stand in their order just below INT64_MAX
RECURSIVE wid_pow10_i64(_)
wid_pow10_i64(n) ==
    IF n <= 0 THEN 1
    ELSE IF n > WID_MAX_W THEN INT64_MAX
    ELSE IF n > 9 THEN INT64_MAX - (WID_MAX_W + 1 - n) * 1000000
    ELSE 10 * wid_pow10_i64(n - 1)

hexdigits == "0123456789abcdef"

\* raw is the sequence of random bytes read; one hex digit per byte
RECURSIVE wid_random_hex(_, _)
wid_random_hex(raw, len) ==
    IF len = 0 THEN ""
    ELSE wid_random_hex(raw, len - 1) \o CharAt(hexdigits, raw[len] % 16)

(***************************************************************************)
(* WID generator                                                           *)
(***************************************************************************)
\* wid_gen_init_ex without the clamps to WID_MAX_W and WID_MAX_Z
wid_gen_init_ex_noclamp(W, Z, unit) ==
    LET W1 == IF W > 0 THEN W ELSE WID_DEFAULT_W
        Z1 == IF Z >= 0 THEN Z ELSE WID_DEFAULT_Z
    IN  [W |-> W1, Z |-> Z1, time_unit |-> unit, last_tick |-> TickZero,
         last_seq |-> -1, max_seq |-> wid_pow10_i64(W1) - 1]

wid_gen_init_ex(W, Z, unit) ==
    LET W1 == IF W > 0 THEN W ELSE WID_DEFAULT_W
        Z1 == IF Z >= 0 THEN Z ELSE WID_DEFAULT_Z
        W2 == IF W1 > WID_MAX_W THEN WID_MAX_W ELSE W1
        Z2 == IF Z1 > WID_MAX_Z THEN WID_MAX_Z ELSE Z1
    IN  [W |-> W2, Z |-> Z2, time_unit |-> unit, last_tick |-> TickZero,
         last_seq |-> -1, max_seq |-> wid_pow10_i64(W2) - 1]

\* wid_gen_step taking the clock reading as the tick (no max with last_tick)
wid_gen_step_nomax(gen, now_tick) ==
    LET seq0 == IF now_tick = gen.last_tick THEN gen.last_seq + 1 ELSE 0
        over == seq0 > gen.max_seq
    IN  [tick |-> IF over THEN TickInc(now_tick, gen.time_unit) ELSE now_tick,
         seq |-> IF over THEN 0 ELSE seq0]

\* wid_gen_step borrowing a tick one sequence number late
wid_gen_step_lateroll(gen, now_tick) ==
    LET tick0 == IF TickLess(gen.last_tick, now_tick) THEN now_tick ELSE gen.last_tick
        seq0 == IF tick0 = gen.last_tick THEN gen.last_seq + 1 ELSE 0
        over == seq0 > gen.max_seq + 1
    IN  [tick |-> IF over THEN TickInc(tick0, gen.time_unit) ELSE tick0,
         seq |-> IF over THEN 0 ELSE seq0]

\* wid_gen_step borrowing the tick after the reading, not after last_tick
wid_gen_step_rollnow(gen, now_tick) ==
    LET tick0 == IF TickLess(gen.last_tick, now_tick) THEN now_tick ELSE gen.last_tick
        seq0 == IF tick0 = gen.last_tick THEN gen.last_seq + 1 ELSE 0
        over == seq0 > gen.max_seq
    IN  [tick |-> IF over THEN TickInc(now_tick, gen.time_unit) ELSE tick0,
         seq |-> IF over THEN 0 ELSE seq0]

\* wid_gen_step continuing the sequence when the reading is past last_tick
wid_gen_step_nozero(gen, now_tick) ==
    LET tick0 == IF TickLess(gen.last_tick, now_tick) THEN now_tick ELSE gen.last_tick
        seq0 == gen.last_seq + 1
        over == seq0 > gen.max_seq
    IN  [tick |-> IF over THEN TickInc(tick0, gen.time_unit) ELSE tick0,
         seq |-> IF over THEN 0 ELSE seq0]

\* the (tick, seq) wid_gen_next computes from the wall-clock reading now_tick
wid_gen_step(gen, now_tick) ==
    LET tick0 == IF TickLess(gen.last_tick, now_tick) THEN now_tick ELSE gen.last_tick
        seq0 == IF tick0 = gen.last_tick THEN gen.last_seq + 1 ELSE 0
        over == seq0 > gen.max_seq
    IN  [tick |-> IF over THEN TickInc(tick0, gen.time_unit) ELSE tick0,
         seq |-> IF over THEN 0 ELSE seq0]

\* the generator after the call and the text written to out, given the
\* wall-clock reading now_tick and the random bytes raw
wid_gen_next(gen, now_tick, raw) ==
    LET tick == wid_gen_step(gen, now_tick).tick
        seq == wid_gen_step(gen, now_tick).seq
        ts == wid_fmt_tick(gen.time_unit, tick)
        seq_str == fmt_zero_pad(seq, gen.W)
    IN  [gen |-> [gen EXCEPT !.last_tick = tick, !.last_seq = seq],
         out |-> IF gen.Z > 0
                 THEN ts \o "." \o seq_str \o "Z-" \o wid_random_hex(raw, gen.Z)
                 ELSE ts \o "." \o seq_str \o "Z"]

(***************************************************************************)
(* HLC generator                                                           *)
(***************************************************************************)
\* strncpy(gen->node, node, sizeof(gen->node) - 1) and the terminating NUL
strncpy_node(node) ==
    IF Len(node) > NODE_BUF - 1 THEN SubSeq(node, 1, NODE_BUF - 1) ELSE node

\* ret = FALSE leaves the generator structure as it was (gen)
hlc_wid_gen_init_ex(gen, node, W, Z, unit) ==
    LET W1 == IF W > 0 THEN W ELSE WID_DEFAULT_W
        Z1 == IF Z >= 0 THEN Z ELSE 0
        W2 == IF W1 > WID_MAX_W THEN WID_MAX_W ELSE W1
        Z2 == IF Z1 > WID_MAX_Z THEN WID_MAX_Z ELSE Z1
    IN  IF ~wid_valid_node(node) THEN [ret |-> FALSE, gen |-> gen]
        ELSE [ret |-> TRUE,
              gen |-> [W |-> W2, Z |-> Z2, time_unit |-> unit,
                       node |-> strncpy_node(node), pt |-> TickZero, lc |-> 0,
                       max_lc |-> wid_pow10_i64(W2) - 1]]

hlc_wid_rollover_if_needed(gen) ==
    IF gen.lc > gen.max_lc
    THEN [gen EXCEPT !.pt = TickInc(gen.pt, gen.time_unit), !.lc = 0]
    ELSE gen

\* the outcomes of the signed addition x + 1: the sum, or, when x is
\* INT64_MAX (undefined behaviour), what a build does: wrap to INT64_MIN, or
\* trap and abort the process (-ftrapv)
SignedInc(x) ==
    IF x = INT64_MAX
    THEN {[trap |-> FALSE, v |-> INT64_MIN], [trap |-> TRUE, v |-> x]}
    ELSE {[trap |-> FALSE, v |-> x + 1]}

\* hlc_wid_observe rejecting a negative remote_pt only
hlc_wid_observe_ptonly(gen, remote_pt, remote_lc, now) ==
    LET p1 == IF TickLess(now, gen.pt) THEN gen.pt ELSE now
        new_pt == IF TickLess(p1, remote_pt) THEN remote_pt ELSE p1
        lcs == IF new_pt = gen.pt /\ new_pt = remote_pt
               THEN SignedInc(IF gen.lc > remote_lc THEN gen.lc ELSE remote_lc)
               ELSE IF new_pt = gen.pt THEN SignedInc(gen.lc)
               ELSE IF new_pt = remote_pt THEN SignedInc(remote_lc)
               ELSE {[trap |-> FALSE, v |-> 0]}
    IN  IF TickNegative(remote_pt)
        THEN {[ret |-> FALSE, trap |-> FALSE, gen |-> gen]}
        ELSE {IF o.trap THEN [ret |-> FALSE, trap |-> TRUE, gen |-> gen]
              ELSE [ret |-> TRUE, trap |-> FALSE,
                    gen |-> hlc_wid_rollover_if_needed(
                                [gen EXCEPT !.pt = new_pt, !.lc = o.v])]
              : o \in lcs}

\* the set of outcomes of the call, given the wall-clock reading now; ret =
\* FALSE leaves the generator as it was, trap = TRUE is a call that aborted
hlc_wid_observe(gen, remote_pt, remote_lc, now) ==
    LET p1 == IF TickLess(now, gen.pt) THEN gen.pt ELSE now
        new_pt == IF TickLess(p1, remote_pt) THEN remote_pt ELSE p1
        lcs == IF new_pt = gen.pt /\ new_pt = remote_pt
               THEN SignedInc(IF gen.lc > remote_lc THEN gen.lc ELSE remote_lc)
               ELSE IF new_pt = gen.pt THEN SignedInc(gen.lc)
               ELSE IF new_pt = remote_pt THEN SignedInc(remote_lc)
               ELSE {[trap |-> FALSE, v |-> 0]}
    IN  IF TickNegative(remote_pt) \/ remote_lc < 0
        THEN {[ret |-> FALSE, trap |-> FALSE, gen |-> gen]}
        ELSE {IF o.trap THEN [ret |-> FALSE, trap |-> TRUE, gen |-> gen]
              ELSE [ret |-> TRUE, trap |-> FALSE,
                    gen |-> hlc_wid_rollover_if_needed(
                                [gen EXCEPT !.pt = new_pt, !.lc = o.v])]
              : o \in lcs}

\* hlc_next_step taking the clock reading whenever it differs from pt
hlc_next_step_follow(gen, now) ==
    hlc_wid_rollover_if_needed(IF now # gen.pt THEN [gen EXCEPT !.pt = now, !.lc = 0]
                               ELSE [gen EXCEPT !.lc = gen.lc + 1])

\* the generator state hlc_wid_gen_next computes from the clock reading now
hlc_next_step(gen, now) ==
    hlc_wid_rollover_if_needed(IF TickLess(gen.pt, now)
                               THEN [gen EXCEPT !.pt = now, !.lc = 0]
                               ELSE [gen EXCEPT !.lc = gen.lc + 1])

hlc_wid_gen_next(gen, now, raw) ==
    LET g2 == hlc_next_step(gen, now)
        ts == wid_fmt_tick(g2.time_unit, g2.pt)
        lc_str == fmt_zero_pad(g2.lc, g2.W)
    IN  [gen |-> g2,
         out |-> IF g2.Z > 0
                 THEN ts \o "." \o lc_str \o "Z-" \o g2.node \o "-"
                         \o wid_random_hex(raw, g2.Z)
                 ELSE ts \o "." \o lc_str \o "Z-" \o g2.node]

(***************************************************************************)
(* Bounds and input domains                                                *)
(***************************************************************************)
MaxNodeLen == 65     \* the longest node segment among the codec inputs
MaxBorrow == 2       \* ticks a generator may run ahead of the largest reading

RECURSIVE Rep(_, _)
Rep(c, n) == IF n <= 0 THEN "" ELSE c \o Rep(c, n - 1)

Heads ==
    {"20260212T091530.0042Z", "20260212T091530123.0042Z", "20240229T000000.7Z",
     "20230229T091530.0042Z", "20261312T091530.0042Z", "20260212T251530.0042Z",
     "20260212T091530.0042z", "20260212T091530.0042", "20260212T091530.00a2Z",
     "2026-02-12T09:15:30.0042Z", "20260212T09153012.0042Z",
     "20260212T0915301234.0042Z", "100000101T000000.0042Z", "waldiez", ""}

Tails ==
    {"", "-a3f91c", "-ab", "-ABCDEF", "-a3f91", "-a3f91c0", "a3f91c", "-", "--ab",
     "-node01", "-my_node", "-node-01", "-node$", "-node01-a3f91c", "-node01-ab",
     "-node01-", "-node01-ABCDEF", "-a3f91c-a3f91c"}
    \cup {"-" \o Rep("n", k) : k \in (NODE_BUF - 1)..MaxNodeLen}
    \cup {"-" \o Rep("n", k) \o "-ab" : k \in (NODE_BUF - 1)..MaxNodeLen}

Inputs == {h \o t : h \in Heads, t \in Tails}
CodecW == {1, 4}
CodecZ == {0, 2, 6}

NoCall == [done |-> FALSE, ret |-> FALSE]

(***************************************************************************)
(* Values of the variables a specification does not use                    *)
(***************************************************************************)
NoStamp == [set |-> FALSE, pt |-> TickZero, lc |-> 0]

NoMsg == [set |-> FALSE, by |-> "", pt |-> TickZero, lc |-> 0, text |-> ""]

NoWidCall == [n |-> 0, now |-> TickZero, last |-> ""]

NoHlcCall == [who |-> "", op |-> "init", ret |-> TRUE, rpt |-> TickZero, rlc |-> 0]

IdleCodec ==
    /\ in_s = ""
    /\ in_W = WID_DEFAULT_W
    /\ in_Z = WID_DEFAULT_Z
    /\ in_unit = WID_TIME_SEC
    /\ res = [vw |-> NoCall, vh |-> NoCall,
              pw |-> [done |-> FALSE, ret |-> FALSE, out |-> ZeroWid],
              ph |-> [done |-> FALSE, ret |-> FALSE, out |-> ZeroHlc]]

IdleWid ==
    /\ wg = wid_gen_init_ex(WID_DEFAULT_W, WID_DEFAULT_Z, WID_TIME_SEC)
    /\ wout = NoWidCall

IdleHlc ==
    /\ hg = <<>>
    /\ hout = NoHlcCall
    /\ hmsg = NoMsg
    /\ hseen = <<>>

\* a stream structure after memset(s, 0, sizeof(*s))
ZeroStream ==
    [kind |-> "", gen |-> <<>>, remaining |-> 0, interval_ms |-> 0, next_due_ns |-> 0,
     initialized |-> FALSE]

\* count and interval_ms are the arguments the stream was initialised with,
\* last_ok_ns the monotonic reading of the last poll that emitted
NoPoll == [op |-> "init", ret |-> TRUE, now_ns |-> 0, buf |-> "", emitted |-> 0,
           count |-> 0, interval_ms |-> 0, last_ok_ns |-> 0]

IdleStream ==
    /\ st = ZeroStream
    /\ sout = NoPoll

NoBulk == [kind |-> "", n |-> 0, ret |-> TRUE, nows |-> <<>>, raws |-> <<>>,
           out |-> <<>>, before |-> <<>>, ref |-> <<>>, refout |-> <<>>]

IdleBulk == bulk = NoBulk

\* no database file, no process
NoSql == [db |-> [present |-> FALSE, last_tick |-> TickZero, last_seq |-> -1],
          proc |-> <<>>, granted |-> {}]

IdleSql == sql = NoSql

(***************************************************************************)
(* The codec: validate and parse applied to an argument tuple              *)
(***************************************************************************)
InitCodec ==
    /\ IdleStream
    /\ IdleBulk
    /\ IdleSql
    /\ in_s \in Inputs
    /\ in_W \in CodecW
    /\ in_Z \in CodecZ
    /\ in_unit \in Units
    /\ res = [vw |-> NoCall, vh |-> NoCall,
              pw |-> [done |-> FALSE, ret |-> FALSE, out |-> ZeroWid],
              ph |-> [done |-> FALSE, ret |-> FALSE, out |-> ZeroHlc]]
    /\ IdleWid
    /\ IdleHlc

ValidateWid ==
    /\ ~res.vw.done
    /\ res' = [res EXCEPT !.vw = [done |-> TRUE,
                                  ret |-> wid_validate_ex(in_s, in_W, in_Z, in_unit)]]
    /\ UNCHANGED <<sql, bulk, streamVars, in_s, in_W, in_Z, in_unit, widVars, hlcVars>>

ValidateHlc ==
    /\ ~res.vh.done
    /\ res' = [res EXCEPT !.vh = [done |-> TRUE,
                                  ret |-> hlc_wid_validate_ex(in_s, in_W, in_Z, in_unit)]]
    /\ UNCHANGED <<sql, bulk, streamVars, in_s, in_W, in_Z, in_unit, widVars, hlcVars>>

ParseWid ==
    /\ ~res.pw.done
    /\ LET r == wid_parse_ex(in_s, in_W, in_Z, in_unit)
       IN  res' = [res EXCEPT !.pw = [done |-> TRUE, ret |-> r.ret, out |-> r.out]]
    /\ UNCHANGED <<sql, bulk, streamVars, in_s, in_W, in_Z, in_unit, widVars, hlcVars>>

ParseHlc ==
    /\ ~res.ph.done
    /\ LET r == hlc_wid_parse_ex(in_s, in_W, in_Z, in_unit)
       IN  res' = [res EXCEPT !.ph = [done |-> TRUE, ret |-> r.ret, out |-> r.out]]
    /\ UNCHANGED <<sql, bulk, streamVars, in_s, in_W, in_Z, in_unit, widVars, hlcVars>>

NextCodec == ValidateWid \/ ValidateHlc \/ ParseWid \/ ParseHlc

SpecCodec == InitCodec /\ [][NextCodec]_vars

(***************************************************************************)
(* Codec properties                                                        *)
(***************************************************************************)
\* the text of a parsed view: calendar fields, counter zero-padded to W
\* digits, node (HLC), padding when has_padding is set
RenderTs(out, unit) ==
    fmt_zero_pad(out.year, 4) \o fmt_zero_pad(out.month, 2)
        \o fmt_zero_pad(out.day, 2) \o "T" \o fmt_zero_pad(out.hour, 2)
        \o fmt_zero_pad(out.minute, 2) \o fmt_zero_pad(out.second, 2)
        \o (IF unit = WID_TIME_MS THEN fmt_zero_pad(out.millisecond, 3) ELSE "")

RenderWid(out, W, unit) ==
    RenderTs(out, unit) \o "." \o fmt_zero_pad(out.sequence, W) \o "Z"
        \o (IF out.has_padding THEN "-" \o out.padding ELSE "")

RenderHlc(out, W, unit) ==
    RenderTs(out, unit) \o "." \o fmt_zero_pad(out.logical_counter, W) \o "Z-"
        \o out.node \o (IF out.has_padding THEN "-" \o out.padding ELSE "")

BaseLen == wid_timestamp_len(in_unit) + 1 + in_W + 1

\* in_s continues after the 'Z' with '-' and exactly in_Z lowercase hex digits
HasExactPadding ==
    /\ Len(in_s) = BaseLen + 1 + in_Z
    /\ CharAt(in_s, BaseLen) = "-"
    /\ \A i \in (BaseLen + 1)..(BaseLen + in_Z) : CharAt(in_s, i) \in StrChars(hexdigits)

\* C6: parse_wid succeeds exactly when validate_wid accepts, and parse_hlc
\* succeeds exactly when validate_hlc accepts.
C6_ParseIffValidate ==
    /\ (res.vw.done /\ res.pw.done) => (res.pw.ret <=> res.vw.ret)
    /\ (res.vh.done /\ res.ph.done) => (res.ph.ret <=> res.vh.ret)

\* C7: whenever a validator accepts, the matching parser succeeds and
\* re-rendering the parsed fields with the same (W, unit) gives back the input.
C7_RoundTrip ==
    /\ (res.vw.done /\ res.vw.ret /\ res.pw.done)
           => (res.pw.ret /\ RenderWid(res.pw.out, in_W, in_unit) = in_s)
    /\ (res.vh.done /\ res.vh.ret /\ res.ph.done)
           => (res.ph.ret /\ RenderHlc(res.ph.out, in_W, in_unit) = in_s)

\* C9 as stated: validate_wid accepts only strings whose padding is present
\* exactly when Z > 0.
C9_PaddingIffZ ==
    (res.vw.done /\ res.vw.ret)
        => IF in_Z > 0 THEN HasExactPadding ELSE Len(in_s) = BaseLen

\* C9 amended: validate_wid accepts only strings that end at the 'Z' or, with
\* Z > 0, continue with '-' and exactly Z lowercase hex digits.
C9_PaddingOptional ==
    (res.vw.done /\ res.vw.ret)
        => (Len(in_s) = BaseLen \/ (in_Z > 0 /\ HasExactPadding))

C9_Witness ==
    res.vw.done /\ res.vw.ret /\ in_Z > 0 /\ Len(in_s) > BaseLen

\* C10 as stated: no string is accepted by both validators under the same
\* (W, Z, unit).
C10_Disjoint ==
    (res.vw.done /\ res.vh.done) => ~(res.vw.ret /\ res.vh.ret)

\* C10 amended: a string is accepted by both validators only when Z > 0 and
\* what follows the 'Z' is '-' and exactly Z lowercase hex digits; a string
\* validate_wid accepts that ends at the 'Z' is rejected by validate_hlc.
C10_OverlapOnlyHexNode ==
    (res.vw.done /\ res.vh.done)
        => /\ (res.vw.ret /\ res.vh.ret) => (in_Z > 0 /\ HasExactPadding)
           /\ (res.vw.ret /\ Len(in_s) = BaseLen) => ~res.vh.ret

C10_Witness ==
    res.vw.done /\ res.vh.done /\ res.vw.ret /\ res.vh.ret

(***************************************************************************)
(* Clock readings, random bytes and remote stamps                          *)
(***************************************************************************)
RECURSIVE TickAdd(_, _, _)
TickAdd(t, k, unit) == IF k <= 0 THEN t ELSE TickAdd(TickInc(t, unit), k - 1, unit)

\* 2026-02-12T23:59:59, the largest wall-clock reading
TickHigh(unit) == <<20496, TicksPerDay(unit) - 1>>

\* the wall clock may advance, stall or jump backward between calls
NowSet(unit) == {<<20496, TicksPerDay(unit) - 2>>, TickHigh(unit)}

\* t is fewer than MaxBorrow ticks past base
Within(t, base, unit) == TickLess(t, TickAdd(base, MaxBorrow, unit))

\* 9999-12-31T23:59:59, the last tick whose year has four digits
TickY9999(unit) == <<2932896, TicksPerDay(unit) - 1>>

Bytes == {10, 255}
RawSet(Z) == [1..Z -> Bytes]

GenW == {1, 2}
GenZ == {0, 2}

(***************************************************************************)
(* One WID generator                                                       *)
(***************************************************************************)
InitWid ==
    /\ IdleStream
    /\ IdleBulk
    /\ IdleSql
    /\ \E W \in GenW, Z \in GenZ, unit \in Units : wg = wid_gen_init_ex(W, Z, unit)
    /\ wout = NoWidCall
    /\ IdleCodec
    /\ IdleHlc

WidGenNext ==
    /\ Within(wg.last_tick, TickHigh(wg.time_unit), wg.time_unit)
    /\ \E now \in NowSet(wg.time_unit), raw \in RawSet(wg.Z) :
          LET r == wid_gen_next(wg, now, raw)
          IN  /\ wg' = r.gen
              /\ wout' = [n |-> IF wout.n < 2 THEN wout.n + 1 ELSE 2,
                          now |-> now, last |-> r.out]
    /\ UNCHANGED <<sql, bulk, streamVars, codecVars, hlcVars>>

NextWid == WidGenNext

SpecWid == InitWid /\ [][NextWid]_vars

(***************************************************************************)
(* HLC generators: one instance fed arbitrary remote stamps (SpecHlc), and *)
(* two instances where B observes the stamps of A's IDs (SpecHlcPair)      *)
(***************************************************************************)
RemotePts(unit) == {<<-1, TicksPerDay(unit) - 1>>, TickHigh(unit), TickY9999(unit)}
RemoteLcs == {-1, 3, 12, INT64_MAX}

\* the generator is called while its process lives, until its counter has
\* wrapped, and while pt is near the wall clock or near a remote stamp
HlcRunning(gen) ==
    /\ hout.op # "trap"
    /\ gen.lc >= 0
    /\ \/ Within(gen.pt, TickHigh(gen.time_unit), gen.time_unit)
       \/ /\ ~TickLess(gen.pt, TickY9999(gen.time_unit))
          /\ Within(gen.pt, TickY9999(gen.time_unit), gen.time_unit)

InitHlc ==
    /\ IdleStream
    /\ IdleBulk
    /\ IdleSql
    /\ \E W \in {1}, Z \in {0, 1}, unit \in Units :
          hg = [i \in {"A"} |-> hlc_wid_gen_init_ex(<<>>, "n1", W, Z, unit).gen]
    /\ hout = NoHlcCall
    /\ hmsg = NoMsg
    /\ hseen = [i \in {"A"} |-> NoStamp]
    /\ IdleCodec
    /\ IdleWid

HlcGenNext(i) ==
    /\ HlcRunning(hg[i])
    /\ \E now \in NowSet(hg[i].time_unit), raw \in RawSet(hg[i].Z) :
          LET r == hlc_wid_gen_next(hg[i], now, raw)
          IN  /\ hg' = [hg EXCEPT ![i] = r.gen]
              /\ hout' = [who |-> i, op |-> "next", ret |-> TRUE, rpt |-> TickZero,
                          rlc |-> 0]
              /\ hmsg' = [set |-> TRUE, by |-> i, pt |-> r.gen.pt, lc |-> r.gen.lc,
                          text |-> r.out]
    /\ UNCHANGED <<sql, bulk, streamVars, hseen, codecVars, widVars>>

\* observe called with arbitrary remote values
HlcObserve(i) ==
    /\ HlcRunning(hg[i])
    /\ \E now \in NowSet(hg[i].time_unit), rpt \in RemotePts(hg[i].time_unit),
          rlc \in RemoteLcs :
          \E r \in hlc_wid_observe(hg[i], rpt, rlc, now) :
              /\ hg' = [hg EXCEPT ![i] = r.gen]
              /\ hout' = [hout EXCEPT !.who = i,
                                      !.op = IF r.trap THEN "trap" ELSE "observe",
                                      !.ret = r.ret, !.rpt = rpt, !.rlc = rlc]
    /\ UNCHANGED <<sql, bulk, streamVars, hmsg, hseen, codecVars, widVars>>

NextHlc == (\E i \in DOMAIN hg : HlcGenNext(i)) \/ (\E i \in DOMAIN hg : HlcObserve(i))

SpecHlc == InitHlc /\ [][NextHlc]_vars

StampMax(a, b) ==
    IF ~a.set THEN b
    ELSE IF LexLess(a.pt, a.lc, b.pt, b.lc) THEN b ELSE a

InitHlcPair ==
    /\ IdleStream
    /\ IdleBulk
    /\ IdleSql
    /\ \E unit \in Units :
          hg = [i \in {"A", "B"} |->
                   hlc_wid_gen_init_ex(<<>>, IF i = "A" THEN "a" ELSE "b", 1, 0, unit).gen]
    /\ hout = NoHlcCall
    /\ hmsg = NoMsg
    /\ hseen = [i \in {"A", "B"} |-> NoStamp]
    /\ IdleCodec
    /\ IdleWid

\* instance i observes the stamp carried by the last ID, emitted by a peer
HlcObservePeer(i) ==
    /\ HlcRunning(hg[i])
    /\ hmsg.set
    /\ hmsg.by # i
    /\ \E now \in NowSet(hg[i].time_unit) :
          \E r \in hlc_wid_observe(hg[i], hmsg.pt, hmsg.lc, now) :
              /\ hg' = [hg EXCEPT ![i] = r.gen]
              /\ hout' = [hout EXCEPT !.who = i,
                                      !.op = IF r.trap THEN "trap" ELSE "observe",
                                      !.ret = r.ret, !.rpt = hmsg.pt, !.rlc = hmsg.lc]
              /\ hseen' = IF r.ret
                          THEN [hseen EXCEPT ![i] =
                                   StampMax(hseen[i], [set |-> TRUE, pt |-> hmsg.pt,
                                                       lc |-> hmsg.lc])]
                          ELSE hseen
    /\ UNCHANGED <<sql, bulk, streamVars, hmsg, codecVars, widVars>>

NextHlcPair == (\E i \in DOMAIN hg : HlcGenNext(i)) \/ HlcObservePeer("B")

SpecHlcPair == InitHlcPair /\ [][NextHlcPair]_vars

(***************************************************************************)
(* Generator properties                                                    *)
(***************************************************************************)
\* the characters of an ID in ascending order of their codes
AsciiOrder == "-.0123456789ABCDEFGHIJKLMNOPQRSTUVWXYZ_abcdefghijklmnopqrstuvwxyz"

Code(c) == IF c = NUL THEN -1
           ELSE CHOOSE k \in 0..(Len(AsciiOrder) - 1) : CharAt(AsciiOrder, k) = c

\* a < b compared character by character (strcmp(a, b) < 0)
StrLess(a, b) ==
    \E k \in 0..Len(a) :
        /\ \A j \in 0..(k - 1) : CharAt(a, j) = CharAt(b, j)
        /\ Code(CharAt(a, k)) < Code(CharAt(b, k))

\* the timestamp, the '.' and the W counter digits of an ID
Prefix(text, W, unit) ==
    SubSeq(text, 1, IF Len(text) < wid_timestamp_len(unit) + 1 + W THEN Len(text)
                    ELSE wid_timestamp_len(unit) + 1 + W)

\* C1: every wid_gen_next leaves (last_tick, last_seq) strictly greater, in
\* lexicographic order, than the previous call left it.
C1_WidStrictlyIncreases ==
    [][LexLess(wg.last_tick, wg.last_seq, wg'.last_tick, wg'.last_seq)]_<<wg, wout>>

\* two calls were made and the last one read a clock behind the generator
C1_Witness ==
    wout.n = 2 /\ TickLess(wout.now, wg.last_tick)

\* C2 as stated: every hlc_wid_gen_next and every successful hlc_wid_observe
\* leaves (pt, lc) strictly greater, in lexicographic order, than it found it.
C2_HlcStrictlyIncreases ==
    [][hout'.ret => LexLess(hg[hout'.who].pt, hg[hout'.who].lc,
                            hg'[hout'.who].pt, hg'[hout'.who].lc)]_<<hg, hout>>

\* C3: of two successive IDs of one generator, the prefix (timestamp, '.',
\* W counter digits) of the first is strictly less than that of the second.
C3_PrefixOrder ==
    [][/\ (wout.last # "" /\ wg' # wg)
          => StrLess(Prefix(wout.last, wg.W, wg.time_unit),
                     Prefix(wout'.last, wg.W, wg.time_unit))
       /\ (hmsg.set /\ hmsg'.set /\ hmsg'.by = hmsg.by /\ hout'.op = "next")
          => StrLess(Prefix(hmsg.text, hg[hmsg.by].W, hg[hmsg.by].time_unit),
                     Prefix(hmsg'.text, hg[hmsg.by].W, hg[hmsg.by].time_unit))
      ]_<<wg, wout, hg, hout, hmsg>>

\* C4 as stated: after a successful observe(remote_pt, remote_lc) the
\* generator's (pt, lc) is strictly greater than (remote_pt, remote_lc).
C4_ObserveDominatesRemote ==
    (hout.op = "observe" /\ hout.ret)
        => LexLess(hout.rpt, hout.rlc, hg[hout.who].pt, hg[hout.who].lc)

\* C5: every ID an instance emits after observing a peer's stamp carries a
\* (pt, lc) strictly greater than that stamp.
C5_HappensBefore ==
    \A i \in DOMAIN hseen :
        (hmsg.set /\ hmsg.by = i /\ hseen[i].set)
            => LexLess(hseen[i].pt, hseen[i].lc, hmsg.pt, hmsg.lc)

\* B emitted after observing a stamp of A that is ahead of B's whole clock
C5_Witness ==
    /\ hmsg.set /\ hmsg.by = "B" /\ hout.op = "next"
    /\ "B" \in DOMAIN hseen /\ hseen["B"].set
    /\ TickLess(TickHigh(hg["B"].time_unit), hseen["B"].pt)

\* C8: every ID a generator emits is accepted by the matching validator
\* called with the generator's (W, Z, unit).
C8_EmitsValidIds ==
    /\ wout.n > 0 => wid_validate_ex(wout.last, wg.W, wg.Z, wg.time_unit)
    /\ hout.op = "next"
          => hlc_wid_validate_ex(hmsg.text, hg[hout.who].W, hg[hout.who].Z,
                                 hg[hout.who].time_unit)

\* C11: every wid_gen_next leaves 0 <= last_seq <= max_seq = 10^W - 1, a
\* last_tick no less than the wall-clock tick the call read, and a last_tick
\* no less than the one it found.
C11_WidGenBounds ==
    [][/\ 0 <= wg'.last_seq
       /\ wg'.last_seq <= wg'.max_seq
       /\ wg'.max_seq = wid_pow10_i64(wg'.W) - 1
       /\ ~TickLess(wg'.last_tick, wout'.now)
       /\ ~TickLess(wg'.last_tick, wg.last_tick)]_<<wg, wout>>

\* the sequence stands at max_seq on a tick borrowed beyond the wall clock
C11_Witness ==
    /\ wout.n > 0
    /\ wg.last_seq = wg.max_seq
    /\ TickLess(TickHigh(wg.time_unit), wg.last_tick)

\* C12 as stated: in every state an HLC generator reaches through next and
\* successful observe calls, 0 <= lc <= max_lc, and no such call lowers pt.
C12_HlcGenBounds ==
    [][hout'.ret => /\ 0 <= hg'[hout'.who].lc
                    /\ hg'[hout'.who].lc <= hg'[hout'.who].max_lc
                    /\ ~TickLess(hg'[hout'.who].pt, hg[hout'.who].pt)]_<<hg, hout>>

\* C13: hlc_wid_observe called with remote_pt < 0 or remote_lc < 0 returns
\* false and leaves every field of the generator as it was.
C13_ObserveRejectsNegative ==
    [][(hout'.op \in {"observe", "trap"}
            /\ (TickNegative(hout'.rpt) \/ hout'.rlc < 0))
          => (hout'.op = "observe" /\ ~hout'.ret /\ hg' = hg)]_<<hg, hout>>

\* a generator that has emitted and counted is handed a negative remote_lc
\* with a remote_pt ahead of it
C13_Witness ==
    /\ hout.op = "observe" /\ ~hout.ret
    /\ hout.rlc < 0 /\ TickLess(hg[hout.who].pt, hout.rpt)
    /\ hmsg.set /\ hg[hout.who].lc > 0

(***************************************************************************)
(* Initialisation: one init call on a generator structure that holds       *)
(* zeroes or the state of a generator used before                          *)
(***************************************************************************)
InitW == {-1, 0, 1, 18, 19}
InitZ == {-1, 0, 64, 65}
InitNodes == {"", "n1", "A_z09", "bad-node", "a b", "n$1"}

PriorWid ==
    {[W |-> 0, Z |-> 0, time_unit |-> WID_TIME_SEC, last_tick |-> TickZero,
      last_seq |-> 0, max_seq |-> 0],
     [W |-> 2, Z |-> 3, time_unit |-> WID_TIME_MS, last_tick |-> TickHigh(WID_TIME_MS),
      last_seq |-> 7, max_seq |-> 99]}

PriorHlc ==
    {[W |-> 0, Z |-> 0, time_unit |-> WID_TIME_SEC, node |-> "", pt |-> TickZero,
      lc |-> 0, max_lc |-> 0],
     [W |-> 2, Z |-> 3, time_unit |-> WID_TIME_MS, node |-> "old",
      pt |-> TickHigh(WID_TIME_MS), lc |-> 7, max_lc |-> 99]}

InitGenInit ==
    /\ IdleStream
    /\ IdleBulk
    /\ IdleSql
    /\ wg \in PriorWid
    /\ wout = NoWidCall
    /\ hg \in [{"A"} -> PriorHlc]
    /\ hout = NoHlcCall
    /\ hmsg = NoMsg
    /\ hseen = <<>>
    /\ IdleCodec

\* wid_gen_init_ex returns nothing: ret records that the call came back
WidGenInit ==
    /\ hout.op = "init"
    /\ \E W \in InitW, Z \in InitZ, unit \in Units :
          /\ wg' = wid_gen_init_ex(W, Z, unit)
          /\ in_W' = W /\ in_Z' = Z /\ in_unit' = unit
          /\ hout' = [hout EXCEPT !.who = "wid", !.op = "wid_gen_init_ex", !.ret = TRUE]
    /\ UNCHANGED <<sql, bulk, streamVars, in_s, res, wout, hlcGenVars>>

HlcGenInit ==
    /\ hout.op = "init"
    /\ \E node \in InitNodes, W \in InitW, Z \in InitZ, unit \in Units :
          LET r == hlc_wid_gen_init_ex(hg["A"], node, W, Z, unit)
          IN  /\ hg' = [hg EXCEPT !["A"] = r.gen]
              /\ in_s' = node /\ in_W' = W /\ in_Z' = Z /\ in_unit' = unit
              /\ hout' = [hout EXCEPT !.who = "A", !.op = "hlc_wid_gen_init_ex",
                                      !.ret = r.ret]
    /\ UNCHANGED <<sql, bulk, streamVars, res, wg, wout, hmsg, hseen>>

NextGenInit == WidGenInit \/ HlcGenInit

SpecGenInit == InitGenInit /\ [][NextGenInit]_vars

\* C14 as stated: an init call with W outside [1, 18] or Z outside [0, 64]
\* fails.
C14_InitRejectsOutOfRange ==
    (hout.op \in {"wid_gen_init_ex", "hlc_wid_gen_init_ex"}
        /\ (in_W \notin 1..18 \/ in_Z \notin 0..64))
        => ~hout.ret

\* C14 amended: wid_gen_init does not fail and hlc_gen_init fails only on the
\* node; W <= 0 becomes 4, W > 18 becomes 18, Z < 0 becomes 6 (WID) or 0
\* (HLC), Z > 64 becomes 64, and a W and Z in range are taken as given.
C14_InitNormalises ==
    LET NormW == IF in_W < 1 THEN 4 ELSE IF in_W > 18 THEN 18 ELSE in_W
        NormZ(dflt) == IF in_Z < 0 THEN dflt ELSE IF in_Z > 64 THEN 64 ELSE in_Z
    IN  /\ hout.op = "wid_gen_init_ex"
            => (hout.ret /\ wg.W = NormW /\ wg.Z = NormZ(6))
        /\ (hout.op = "hlc_wid_gen_init_ex" /\ in_s \in {"n1", "A_z09"})
            => (hout.ret /\ hg["A"].W = NormW /\ hg["A"].Z = NormZ(0))

\* wid_gen_init_ex was called with W above and Z below the range
C14_Witness ==
    hout.op = "wid_gen_init_ex" /\ in_W = 19 /\ in_Z = -1

\* C15: hlc_gen_init called with a node that is empty or holds a character
\* outside [A-Za-z0-9_] fails and leaves the generator structure as it was.
C15_InitRejectsBadNode ==
    [][(hout'.op = "hlc_wid_gen_init_ex"
           /\ (in_s' = ""
               \/ \E c \in StrChars(in_s') :
                     c \notin StrChars(DigitStr \o LowerStr \o UpperStr \o "_")))
          => (~hout'.ret /\ hg' = hg)]_vars

\* a generator used before is handed to init with a hyphenated node
C15_Witness ==
    /\ hout.op = "hlc_wid_gen_init_ex" /\ ~hout.ret
    /\ in_s = "bad-node" /\ hg["A"].node = "old" /\ hg["A"].lc = 7

(***************************************************************************)
(* The codec called with W and Z in and out of range, on strings that are  *)
(* well-formed for the W and Z given                                       *)
(***************************************************************************)
RangeW == {-1, 0, 4, 19}
RangeZ == {-1, 0, 6, 65}

RangeHeads ==
    {"20260212T091530.Z", "20260212T091530.0042Z",
     "20260212T091530.0000000000000000042Z",
     "20260212T091530123.Z", "20260212T091530123.0042Z",
     "20260212T091530123.0000000000000000042Z"}

RangeTails ==
    {"", "-a3f91c", "-" \o Rep("a", 65), "-n1", "-n1-a3f91c", "-n1-" \o Rep("a", 65)}

InitCodecRange ==
    /\ IdleStream
    /\ IdleBulk
    /\ IdleSql
    /\ in_s \in {h \o t : h \in RangeHeads, t \in RangeTails}
    /\ in_W \in RangeW
    /\ in_Z \in RangeZ
    /\ in_unit \in Units
    /\ res = [vw |-> NoCall, vh |-> NoCall,
              pw |-> [done |-> FALSE, ret |-> FALSE, out |-> ZeroWid],
              ph |-> [done |-> FALSE, ret |-> FALSE, out |-> ZeroHlc]]
    /\ IdleWid
    /\ IdleHlc

SpecCodecRange == InitCodecRange /\ [][NextCodec]_vars

\* C16: validate_wid and validate_hlc return false, whatever the string,
\* when W is outside [1, 18] or Z is outside [0, 64].
C16_ValidateRejectsOutOfRange ==
    (in_W \notin 1..18 \/ in_Z \notin 0..64)
        => /\ res.vw.done => ~res.vw.ret
           /\ res.vh.done => ~res.vh.ret

\* both validators were called with W = 19 on a string that has 19 counter
\* digits and a node
C16_Witness ==
    /\ res.vw.done /\ res.vh.done
    /\ in_W = 19 /\ in_Z = 6 /\ in_unit = WID_TIME_SEC
    /\ in_s = "20260212T091530.0000000000000000042Z-a3f91c"

(***************************************************************************)
(* The validators called on strings that differ in their calendar fields   *)
(***************************************************************************)
CalYears == {"1900", "2000", "2023", "2024"}
CalMonths == {"00", "01", "02", "04", "12", "13"}
CalDays == {"00", "01", "28", "29", "30", "31", "32"}
CalHours == {"00", "23", "24", "25"}
CalMinutes == {"00", "59", "60"}
CalSeconds == {"00", "59", "60"}

\* with Z = 2 the tail "-ab" is padding to validate_wid and a node to
\* validate_hlc
InitCalendar ==
    /\ IdleStream
    /\ IdleBulk
    /\ IdleSql
    /\ in_unit \in Units
    /\ in_s \in {y \o mo \o d \o "T" \o h \o mi \o se
                     \o (IF in_unit = WID_TIME_MS THEN "123" ELSE "") \o ".0042Z-ab" :
                  y \in CalYears, mo \in CalMonths, d \in CalDays, h \in CalHours,
                  mi \in CalMinutes, se \in CalSeconds}
    /\ in_W = 4
    /\ in_Z = 2
    /\ res = [vw |-> NoCall, vh |-> NoCall,
              pw |-> [done |-> FALSE, ret |-> FALSE, out |-> ZeroWid],
              ph |-> [done |-> FALSE, ret |-> FALSE, out |-> ZeroHlc]]
    /\ IdleWid
    /\ IdleHlc

NextCalendar == ValidateWid \/ ValidateHlc

SpecCalendar == InitCalendar /\ [][NextCalendar]_vars

\* the number written by the two digits of s at offset off
TwoDigits(s, off) == 10 * DigitVal(CharAt(s, off)) + DigitVal(CharAt(s, off + 1))

DaysIn(y, m) ==
    IF m \in {4, 6, 9, 11} THEN 30
    ELSE IF m # 2 THEN 31
    ELSE IF (y % 4 = 0 /\ y % 100 # 0) \/ y % 400 = 0 THEN 29
    ELSE 28

\* the timestamp digits of in_s form a calendar instant
CalendarInstant ==
    LET y == 100 * TwoDigits(in_s, 0) + TwoDigits(in_s, 2)
        mo == TwoDigits(in_s, 4)
        d == TwoDigits(in_s, 6)
    IN  /\ mo \in 1..12
        /\ d >= 1 /\ d <= DaysIn(y, mo)
        /\ TwoDigits(in_s, 9) \in 0..23
        /\ TwoDigits(in_s, 11) \in 0..59
        /\ TwoDigits(in_s, 13) \in 0..59

\* C17: a validator accepts a string only if its timestamp digits form a
\* calendar instant (Gregorian leap rule); 2024-02-29 is accepted.
C17_CalendarValid ==
    /\ (res.vw.done /\ res.vw.ret) => CalendarInstant
    /\ (res.vh.done /\ res.vh.ret) => CalendarInstant
    /\ (SubSeq(in_s, 1, 15) = "20240229T235959")
          => /\ res.vw.done => res.vw.ret
             /\ res.vh.done => res.vh.ret

\* both validators accepted 29 February of a year divisible by 400
C17_Witness ==
    /\ res.vw.done /\ res.vh.done /\ res.vw.ret /\ res.vh.ret
    /\ SubSeq(in_s, 1, 8) = "20000229"

\* in_s begins with a well-formed timestamp of in_unit: eight digits, 'T',
\* six digits (and three more for ms) that form a calendar instant
TimestampWellFormed ==
    LET digits == (0..7) \cup (9..(wid_timestamp_len(in_unit) - 1))
    IN  /\ Len(in_s) >= wid_timestamp_len(in_unit)
        /\ \A i \in digits : CharAt(in_s, i) \in StrChars(DigitStr)
        /\ CharAt(in_s, 8) = "T"
        /\ CalendarInstant

\* the HLC-WID grammar read off in_s for (in_W, in_Z, in_unit)
HlcGrammar ==
    LET ts_len == wid_timestamp_len(in_unit)
        rest == StrFrom(in_s, BaseLen + 1)
        dashes == {i \in 1..Len(rest) : SubSeq(rest, i, i) = "-"}
        dash == IF dashes = {} THEN 0 ELSE CHOOSE i \in dashes : \A j \in dashes : i <= j
        node == IF dash = 0 THEN rest ELSE SubSeq(rest, 1, dash - 1)
        pad == IF dash = 0 THEN "" ELSE SubSeq(rest, dash + 1, Len(rest))
    IN  /\ TimestampWellFormed
        /\ CharAt(in_s, ts_len) = "."
        /\ \A i \in (ts_len + 1)..(ts_len + in_W) :
               CharAt(in_s, i) \in StrChars(DigitStr)
        /\ CharAt(in_s, ts_len + 1 + in_W) = "Z"
        /\ CharAt(in_s, BaseLen) = "-"
        /\ Len(node) > 0
        /\ StrChars(node) \subseteq StrChars(DigitStr \o LowerStr \o UpperStr \o "_")
        /\ dash # 0 => /\ in_Z > 0
                       /\ Len(pad) = in_Z
                       /\ StrChars(pad) \subseteq StrChars(hexdigits)

\* C18: validate_hlc accepts a string exactly when it has the HLC-WID
\* grammar: timestamp, '.', W digits, 'Z', '-', a non-empty node of
\* [A-Za-z0-9_] ending at the end of the string or at a second '-', which
\* requires Z > 0 and exactly Z lowercase hex digits after it.
C18_HlcGrammar ==
    res.vh.done => (res.vh.ret <=> HlcGrammar)

\* validate_hlc accepted a node followed by padding, with Z > 0
C18_Witness ==
    /\ res.vh.done /\ res.vh.ret /\ in_Z = 6
    /\ StrFrom(in_s, BaseLen) = "-node01-a3f91c"

(***************************************************************************)
(* Paced poll streams                                                      *)
(***************************************************************************)
NsPerMs == 1000000

\* s is a stream structure in every call (never a null pointer)

\* wid_async_wid_stream_init setting next_due_ns one interval ahead
wid_async_wid_stream_init_duelater(s, W, Z, unit, count, interval_ms) ==
    IF count < 0 \/ interval_ms < 0 THEN [ret |-> FALSE, s |-> s]
    ELSE [ret |-> TRUE,
          s |-> [kind |-> "wid", gen |-> wid_gen_init_ex(W, Z, unit),
                 remaining |-> IF count = 0 THEN -1 ELSE count,
                 interval_ms |-> interval_ms, next_due_ns |-> interval_ms * NsPerMs,
                 initialized |-> TRUE]]

\* wid_async_wid_stream_init without the test interval_ms < 0
wid_async_wid_stream_init_nointerval(s, W, Z, unit, count, interval_ms) ==
    IF count < 0 THEN [ret |-> FALSE, s |-> s]
    ELSE [ret |-> TRUE,
          s |-> [kind |-> "wid", gen |-> wid_gen_init_ex(W, Z, unit),
                 remaining |-> IF count = 0 THEN -1 ELSE count,
                 interval_ms |-> interval_ms, next_due_ns |-> 0,
                 initialized |-> TRUE]]

\* ret = FALSE on a negative count or interval leaves the structure (s) as
\* it was
wid_async_wid_stream_init(s, W, Z, unit, count, interval_ms) ==
    IF count < 0 \/ interval_ms < 0 THEN [ret |-> FALSE, s |-> s]
    ELSE [ret |-> TRUE,
          s |-> [kind |-> "wid", gen |-> wid_gen_init_ex(W, Z, unit),
                 remaining |-> IF count = 0 THEN -1 ELSE count,
                 interval_ms |-> interval_ms, next_due_ns |-> 0,
                 initialized |-> TRUE]]

\* a node that fails hlc_wid_gen_init_ex leaves the structure zeroed
wid_async_hlc_stream_init(s, node, W, Z, unit, count, interval_ms) ==
    LET g == hlc_wid_gen_init_ex(ZeroStream.gen, node, W, Z, unit)
    IN  IF count < 0 \/ interval_ms < 0 THEN [ret |-> FALSE, s |-> s]
        ELSE IF ~g.ret THEN [ret |-> FALSE, s |-> ZeroStream]
        ELSE [ret |-> TRUE,
              s |-> [kind |-> "hlc", gen |-> g.gen,
                     remaining |-> IF count = 0 THEN -1 ELSE count,
                     interval_ms |-> interval_ms, next_due_ns |-> 0,
                     initialized |-> TRUE]]

wid_async_wid_stream_done(s) == ~s.initialized \/ s.remaining = 0

wid_async_hlc_stream_done(s) == ~s.initialized \/ s.remaining = 0

\* wid_async_wid_stream_poll without the test remaining == 0
wid_async_wid_stream_poll_nodone(s, buf, now_ns, now_tick, raw) ==
    IF ~s.initialized \/ buf = NULL THEN [ret |-> FALSE, s |-> s, buf |-> buf]
    ELSE IF s.next_due_ns > 0 /\ now_ns < s.next_due_ns
         THEN [ret |-> FALSE, s |-> s, buf |-> buf]
    ELSE LET r == wid_gen_next(s.gen, now_tick, raw)
         IN  [ret |-> TRUE,
              s |-> [s EXCEPT !.gen = r.gen,
                              !.remaining = IF @ > 0 THEN @ - 1 ELSE @,
                              !.next_due_ns = now_ns + s.interval_ms * NsPerMs],
              buf |-> r.out]

\* wid_async_wid_stream_poll without the test against next_due_ns
wid_async_wid_stream_poll_eager(s, buf, now_ns, now_tick, raw) ==
    IF ~s.initialized \/ buf = NULL THEN [ret |-> FALSE, s |-> s, buf |-> buf]
    ELSE IF s.remaining = 0 THEN [ret |-> FALSE, s |-> s, buf |-> buf]
    ELSE LET r == wid_gen_next(s.gen, now_tick, raw)
         IN  [ret |-> TRUE,
              s |-> [s EXCEPT !.gen = r.gen,
                              !.remaining = IF @ > 0 THEN @ - 1 ELSE @,
                              !.next_due_ns = now_ns + s.interval_ms * NsPerMs],
              buf |-> r.out]

\* wid_async_wid_stream_poll decrementing remaining whatever its sign
wid_async_wid_stream_poll_decall(s, buf, now_ns, now_tick, raw) ==
    IF ~s.initialized \/ buf = NULL THEN [ret |-> FALSE, s |-> s, buf |-> buf]
    ELSE IF s.remaining = 0 THEN [ret |-> FALSE, s |-> s, buf |-> buf]
    ELSE IF s.next_due_ns > 0 /\ now_ns < s.next_due_ns
         THEN [ret |-> FALSE, s |-> s, buf |-> buf]
    ELSE LET r == wid_gen_next(s.gen, now_tick, raw)
         IN  [ret |-> TRUE,
              s |-> [s EXCEPT !.gen = r.gen,
                              !.remaining = @ - 1,
                              !.next_due_ns = now_ns + s.interval_ms * NsPerMs],
              buf |-> r.out]

\* wid_async_wid_stream_poll adding interval_ms to now_ns as if nanoseconds
wid_async_wid_stream_poll_msdue(s, buf, now_ns, now_tick, raw) ==
    IF ~s.initialized \/ buf = NULL THEN [ret |-> FALSE, s |-> s, buf |-> buf]
    ELSE IF s.remaining = 0 THEN [ret |-> FALSE, s |-> s, buf |-> buf]
    ELSE IF s.next_due_ns > 0 /\ now_ns < s.next_due_ns
         THEN [ret |-> FALSE, s |-> s, buf |-> buf]
    ELSE LET r == wid_gen_next(s.gen, now_tick, raw)
         IN  [ret |-> TRUE,
              s |-> [s EXCEPT !.gen = r.gen,
                              !.remaining = IF @ > 0 THEN @ - 1 ELSE @,
                              !.next_due_ns = now_ns + s.interval_ms],
              buf |-> r.out]

\* wid_async_wid_stream_poll never taking remaining from 1 to 0
wid_async_wid_stream_poll_keepone(s, buf, now_ns, now_tick, raw) ==
    IF ~s.initialized \/ buf = NULL THEN [ret |-> FALSE, s |-> s, buf |-> buf]
    ELSE IF s.remaining = 0 THEN [ret |-> FALSE, s |-> s, buf |-> buf]
    ELSE IF s.next_due_ns > 0 /\ now_ns < s.next_due_ns
         THEN [ret |-> FALSE, s |-> s, buf |-> buf]
    ELSE LET r == wid_gen_next(s.gen, now_tick, raw)
         IN  [ret |-> TRUE,
              s |-> [s EXCEPT !.gen = r.gen,
                              !.remaining = IF @ > 1 THEN @ - 1 ELSE @,
                              !.next_due_ns = now_ns + s.interval_ms * NsPerMs],
              buf |-> r.out]

\* the call given the monotonic reading now_ns, the wall-clock reading
\* now_tick and the random bytes raw; buf is the caller's out buffer
wid_async_wid_stream_poll(s, buf, now_ns, now_tick, raw) ==
    IF ~s.initialized \/ buf = NULL THEN [ret |-> FALSE, s |-> s, buf |-> buf]
    ELSE IF s.remaining = 0 THEN [ret |-> FALSE, s |-> s, buf |-> buf]
    ELSE IF s.next_due_ns > 0 /\ now_ns < s.next_due_ns
         THEN [ret |-> FALSE, s |-> s, buf |-> buf]
    ELSE LET r == wid_gen_next(s.gen, now_tick, raw)
         IN  [ret |-> TRUE,
              s |-> [s EXCEPT !.gen = r.gen,
                              !.remaining = IF @ > 0 THEN @ - 1 ELSE @,
                              !.next_due_ns = now_ns + s.interval_ms * NsPerMs],
              buf |-> r.out]

wid_async_hlc_stream_poll(s, buf, now_ns, now_tick, raw) ==
    IF ~s.initialized \/ buf = NULL THEN [ret |-> FALSE, s |-> s, buf |-> buf]
    ELSE IF s.remaining = 0 THEN [ret |-> FALSE, s |-> s, buf |-> buf]
    ELSE IF s.next_due_ns > 0 /\ now_ns < s.next_due_ns
         THEN [ret |-> FALSE, s |-> s, buf |-> buf]
    ELSE LET r == hlc_wid_gen_next(s.gen, now_tick, raw)
         IN  [ret |-> TRUE,
              s |-> [s EXCEPT !.gen = r.gen,
                              !.remaining = IF @ > 0 THEN @ - 1 ELSE @,
                              !.next_due_ns = now_ns + s.interval_ms * NsPerMs],
              buf |-> r.out]

MaxCount == 3           \* the largest count a stream is initialised with
MaxMonoNs == 9000000    \* the last reading of the monotonic clock

StreamCounts == 0..MaxCount
StreamIntervals == {0, 1, 2}

\* the monotonic clock does not go back: a reading is the last one or later
MonoSteps == {0, NsPerMs \div 2, NsPerMs}
MonoReadings == {sout.now_ns + d : d \in {e \in MonoSteps : sout.now_ns + e <= MaxMonoNs}}

\* a stream as wid_async_wid_stream_init or wid_async_hlc_stream_init
\* leaves it, and the buffer the caller will pass
InitStream ==
    /\ \E count \in StreamCounts, interval_ms \in StreamIntervals :
          /\ st \in {wid_async_wid_stream_init(ZeroStream, 1, 0, WID_TIME_SEC,
                                                count, interval_ms).s,
                      wid_async_hlc_stream_init(ZeroStream, "n1", 1, 0, WID_TIME_SEC,
                                                count, interval_ms).s}
          /\ sout = [NoPoll EXCEPT !.count = count, !.interval_ms = interval_ms]
    /\ IdleCodec
    /\ IdleWid
    /\ IdleHlc
    /\ IdleBulk
    /\ IdleSql

WidStreamPoll ==
    /\ st.kind = "wid"
    /\ Within(st.gen.last_tick, TickHigh(st.gen.time_unit), st.gen.time_unit)
    /\ \E now_ns \in MonoReadings, now_tick \in NowSet(st.gen.time_unit),
          raw \in RawSet(st.gen.Z) :
          LET r == wid_async_wid_stream_poll(st, sout.buf, now_ns, now_tick, raw)
          IN  /\ st' = r.s
              /\ sout' = [sout EXCEPT !.op = "poll", !.ret = r.ret, !.now_ns = now_ns,
                                      !.buf = r.buf,
                                      !.emitted = IF r.ret THEN @ + 1 ELSE @,
                                      !.last_ok_ns = IF r.ret THEN now_ns ELSE @]
    /\ UNCHANGED <<sql, bulk, codecVars, widVars, hlcVars>>

HlcStreamPoll ==
    /\ st.kind = "hlc"
    /\ HlcRunning(st.gen)
    /\ \E now_ns \in MonoReadings, now_tick \in NowSet(st.gen.time_unit),
          raw \in RawSet(st.gen.Z) :
          LET r == wid_async_hlc_stream_poll(st, sout.buf, now_ns, now_tick, raw)
          IN  /\ st' = r.s
              /\ sout' = [sout EXCEPT !.op = "poll", !.ret = r.ret, !.now_ns = now_ns,
                                      !.buf = r.buf,
                                      !.emitted = IF r.ret THEN @ + 1 ELSE @,
                                      !.last_ok_ns = IF r.ret THEN now_ns ELSE @]
    /\ UNCHANGED <<sql, bulk, codecVars, widVars, hlcVars>>

NextStream == WidStreamPoll \/ HlcStreamPoll

SpecStream == InitStream /\ [][NextStream]_vars

\* done() of the stream st
StreamDone(s) ==
    IF s.kind = "wid" THEN wid_async_wid_stream_done(s) ELSE wid_async_hlc_stream_done(s)

\* C19: for a stream initialised with count = c > 0, the successful polls
\* never exceed c, done() is true exactly once c polls have succeeded, and a
\* poll made when done() is true fails, leaving the buffer, the stream and
\* its generator as they were.
C19_StreamCount ==
    /\ [](sout.count > 0
            => /\ sout.emitted <= sout.count
               /\ StreamDone(st) <=> sout.emitted = sout.count)
    /\ [][(sout.count > 0 /\ StreamDone(st))
              => (~sout'.ret /\ st' = st /\ sout'.buf = sout.buf
                  /\ sout'.emitted = sout.emitted /\ StreamDone(st'))]_<<st, sout>>

\* a stream of count MaxCount is done and was polled again, at a later
\* monotonic reading
C19_Witness ==
    /\ sout.count = MaxCount /\ sout.emitted = MaxCount /\ StreamDone(st)
    /\ sout.op = "poll" /\ ~sout.ret /\ sout.now_ns > st.next_due_ns

\* C20: a poll whose monotonic reading is before next_due returns false and
\* leaves the buffer, the generator, remaining and next_due as they were.
C20_NotReady ==
    [][sout'.now_ns < st.next_due_ns
          => (~sout'.ret /\ sout'.buf = sout.buf /\ st'.gen = st.gen
              /\ st'.remaining = st.remaining /\ st'.next_due_ns = st.next_due_ns)
      ]_<<st, sout>>

\* a stream that has emitted and is not done was polled before next_due
C20_Witness ==
    /\ sout.op = "poll" /\ ~sout.ret /\ sout.emitted > 0
    /\ ~StreamDone(st) /\ sout.now_ns < st.next_due_ns

(***************************************************************************)
(* Stream initialisation: one call of wid_async_wid_stream_init or         *)
(* wid_async_hlc_stream_init on a zeroed or a used stream structure        *)
(***************************************************************************)
InitCounts == {-2, -1, 0, 1, MaxCount}
InitIntervals == {-2, -1, 0, 1, 2}
InitStreamNodes == {"n1", "bad-node", ""}
InitStreamWZ == {<<1, 0>>, <<19, 65>>}

\* a structure never initialised, and one that has emitted once of two
PriorStreams ==
    {ZeroStream,
     [kind |-> "wid", gen |-> [wid_gen_init_ex(1, 0, WID_TIME_SEC)
                                EXCEPT !.last_tick = TickHigh(WID_TIME_SEC),
                                       !.last_seq = 0],
      remaining |-> 1, interval_ms |-> 1, next_due_ns |-> NsPerMs,
      initialized |-> TRUE]}

InitStreamInit ==
    /\ st \in PriorStreams
    /\ sout = NoPoll
    /\ IdleCodec
    /\ IdleWid
    /\ IdleHlc
    /\ IdleBulk
    /\ IdleSql

WidStreamInit ==
    /\ sout.op = "init"
    /\ \E wz \in InitStreamWZ, unit \in Units, count \in InitCounts,
          interval_ms \in InitIntervals :
          LET r == wid_async_wid_stream_init(st, wz[1], wz[2], unit, count, interval_ms)
          IN  /\ st' = r.s
              /\ in_W' = wz[1] /\ in_Z' = wz[2] /\ in_unit' = unit
              /\ sout' = [sout EXCEPT !.op = "wid_async_wid_stream_init",
                                      !.ret = r.ret, !.count = count,
                                      !.interval_ms = interval_ms]
    /\ UNCHANGED <<sql, bulk, in_s, res, widVars, hlcVars>>

HlcStreamInit ==
    /\ sout.op = "init"
    /\ \E node \in InitStreamNodes, wz \in InitStreamWZ, unit \in Units,
          count \in InitCounts, interval_ms \in InitIntervals :
          LET r == wid_async_hlc_stream_init(st, node, wz[1], wz[2], unit, count,
                                             interval_ms)
          IN  /\ st' = r.s
              /\ in_s' = node /\ in_W' = wz[1] /\ in_Z' = wz[2] /\ in_unit' = unit
              /\ sout' = [sout EXCEPT !.op = "wid_async_hlc_stream_init",
                                      !.ret = r.ret, !.count = count,
                                      !.interval_ms = interval_ms]
    /\ UNCHANGED <<sql, bulk, res, widVars, hlcVars>>

NextStreamInit == WidStreamInit \/ HlcStreamInit

SpecStreamInit == InitStreamInit /\ [][NextStreamInit]_vars

\* C21: a stream init call with count < 0 or interval_ms < 0 fails, and one
\* with count >= 0 and interval_ms >= 0 (and, for HLC, a valid node) succeeds
\* and leaves the stream initialised.
C21_StreamInitArgs ==
    sout.op \in {"wid_async_wid_stream_init", "wid_async_hlc_stream_init"}
        => /\ (sout.count < 0 \/ sout.interval_ms < 0) => ~sout.ret
           /\ (/\ sout.count >= 0
               /\ sout.interval_ms >= 0
               /\ sout.op = "wid_async_hlc_stream_init" => in_s = "n1")
                  => (sout.ret /\ st.initialized)

\* a WID stream init was refused for its interval alone
C21_Witness ==
    /\ sout.op = "wid_async_wid_stream_init"
    /\ sout.count = 0 /\ sout.interval_ms = -1 /\ ~sout.ret

\* C22: a stream initialised with count = 0 keeps remaining = -1 and is never
\* done, and every poll of it that is due (no emit yet, or a monotonic
\* reading at or after next_due) emits.
C22_Unbounded ==
    /\ [](sout.count = 0 => (st.remaining = -1 /\ ~StreamDone(st)))
    /\ [][(sout.count = 0 /\ (sout.emitted = 0 \/ sout'.now_ns >= st.next_due_ns))
              => (sout'.ret /\ sout'.emitted = sout.emitted + 1)]_<<st, sout>>

\* an unbounded stream has emitted more than the largest finite count
C22_Witness ==
    /\ sout.count = 0 /\ sout.op = "poll" /\ sout.ret
    /\ sout.emitted > MaxCount /\ st.remaining = -1

\* C30: two consecutive successful polls are at least interval_ms * 1000000
\* ns apart on the monotonic clock, and with interval_ms = 0 every poll of a
\* stream that is not done emits.
C30_Pacing ==
    [][/\ (sout'.ret /\ sout.emitted > 0)
            => sout'.now_ns - sout.last_ok_ns >= sout.interval_ms * 1000000
       /\ (sout.interval_ms = 0 /\ ~StreamDone(st)) => sout'.ret
      ]_<<st, sout>>

\* a stream of interval 2 ms emitted a second time, after polls that were
\* refused
C30_Witness ==
    /\ sout.op = "poll" /\ sout.ret /\ sout.interval_ms = 2 /\ sout.emitted = 2
    /\ sout.now_ns >= 2 * NsPerMs

(***************************************************************************)
(* Bulk helpers: wid_gen_next_n and hlc_wid_gen_next_n.  nows and raws are *)
(* the wall-clock readings and random bytes of the successive iterations,  *)
(* out is the caller's array.                                              *)
(***************************************************************************)
RECURSIVE wid_gen_next_n_from(_, _, _, _, _, _)
\* the loop of wid_gen_next_n from iteration i (0-based)
wid_gen_next_n_from(gen, out, i, n, nows, raws) ==
    IF i < n
    THEN LET r == wid_gen_next(gen, nows[i + 1], raws[i + 1])
         IN  wid_gen_next_n_from(r.gen, [out EXCEPT ![i + 1] = r.out], i + 1, n,
                                 nows, raws)
    ELSE [ret |-> TRUE, gen |-> gen, out |-> out]

\* wid_gen_next_n reading the wall clock once, before the loop
wid_gen_next_n_oneclock(gen, n, out, nows, raws) ==
    IF n < 0 THEN [ret |-> FALSE, gen |-> gen, out |-> out]
    ELSE wid_gen_next_n_from(gen, out, 0, n, [i \in 1..n |-> nows[1]], raws)

\* gen and out are never null pointers
wid_gen_next_n(gen, n, out, nows, raws) ==
    IF n < 0 THEN [ret |-> FALSE, gen |-> gen, out |-> out]
    ELSE wid_gen_next_n_from(gen, out, 0, n, nows, raws)

RECURSIVE hlc_wid_gen_next_n_from(_, _, _, _, _, _)
hlc_wid_gen_next_n_from(gen, out, i, n, nows, raws) ==
    IF i < n
    THEN LET r == hlc_wid_gen_next(gen, nows[i + 1], raws[i + 1])
         IN  hlc_wid_gen_next_n_from(r.gen, [out EXCEPT ![i + 1] = r.out], i + 1, n,
                                     nows, raws)
    ELSE [ret |-> TRUE, gen |-> gen, out |-> out]

hlc_wid_gen_next_n(gen, n, out, nows, raws) ==
    IF n < 0 THEN [ret |-> FALSE, gen |-> gen, out |-> out]
    ELSE hlc_wid_gen_next_n_from(gen, out, 0, n, nows, raws)

MaxN == 3     \* the largest n passed to next_n, and the length of out

BulkN == -1..MaxN

\* the caller's array before the call
BulkOut == [i \in 1..MaxN |-> ""]

\* a generator as init leaves it, and one on the last sequence number but
\* one of the largest wall-clock reading
BulkWid ==
    UNION {{wid_gen_init_ex(1, z, unit),
            [wid_gen_init_ex(1, z, unit) EXCEPT !.last_tick = TickHigh(unit),
                                                !.last_seq = 8]} :
           z \in {0, 1}, unit \in Units}

BulkHlc ==
    UNION {{hlc_wid_gen_init_ex(<<>>, "n1", 1, z, unit).gen,
            [hlc_wid_gen_init_ex(<<>>, "n1", 1, z, unit).gen
                EXCEPT !.pt = TickHigh(unit), !.lc = 8]} :
           z \in {0, 1}, unit \in Units}

InitBulk ==
    /\ \/ wg \in BulkWid /\ hg = <<>>
       \/ IdleWid /\ hg \in [{"A"} -> BulkHlc]
    /\ wout = NoWidCall
    /\ hout = NoHlcCall
    /\ hmsg = NoMsg
    /\ hseen = <<>>
    /\ bulk = NoBulk
    /\ IdleSql
    /\ IdleCodec
    /\ IdleStream

WidNextN ==
    /\ bulk.kind = "" /\ hg = <<>>
    /\ \E n \in BulkN :
          \E nows \in [1..n -> NowSet(wg.time_unit)], raws \in [1..n -> RawSet(wg.Z)] :
              LET r == wid_gen_next_n(wg, n, BulkOut, nows, raws)
              IN  /\ wg' = r.gen
                  /\ bulk' = [kind |-> "wid", n |-> n, ret |-> r.ret, nows |-> nows,
                              raws |-> raws, out |-> r.out, before |-> wg,
                              ref |-> wg, refout |-> <<>>]
    /\ UNCHANGED <<sql, streamVars, codecVars, wout, hlcVars>>

HlcNextN ==
    /\ bulk.kind = "" /\ "A" \in DOMAIN hg
    /\ \E n \in BulkN :
          \E nows \in [1..n -> NowSet(hg["A"].time_unit)],
             raws \in [1..n -> RawSet(hg["A"].Z)] :
              LET r == hlc_wid_gen_next_n(hg["A"], n, BulkOut, nows, raws)
              IN  /\ hg' = [hg EXCEPT !["A"] = r.gen]
                  /\ bulk' = [kind |-> "hlc", n |-> n, ret |-> r.ret, nows |-> nows,
                              raws |-> raws, out |-> r.out, before |-> hg["A"],
                              ref |-> hg["A"], refout |-> <<>>]
    /\ UNCHANGED <<sql, streamVars, codecVars, widVars, hout, hmsg, hseen>>

\* one call of wid_gen_next on a copy of the generator as it was before the
\* bulk call, at the reading the matching iteration had
WidReplayNext ==
    /\ bulk.kind = "wid" /\ Len(bulk.refout) < bulk.n
    /\ LET k == Len(bulk.refout) + 1
           r == wid_gen_next(bulk.ref, bulk.nows[k], bulk.raws[k])
       IN  bulk' = [bulk EXCEPT !.ref = r.gen, !.refout = Append(@, r.out)]
    /\ UNCHANGED <<sql, streamVars, codecVars, widVars, hlcVars>>

HlcReplayNext ==
    /\ bulk.kind = "hlc" /\ Len(bulk.refout) < bulk.n
    /\ LET k == Len(bulk.refout) + 1
           r == hlc_wid_gen_next(bulk.ref, bulk.nows[k], bulk.raws[k])
       IN  bulk' = [bulk EXCEPT !.ref = r.gen, !.refout = Append(@, r.out)]
    /\ UNCHANGED <<sql, streamVars, codecVars, widVars, hlcVars>>

NextBulk == WidNextN \/ HlcNextN \/ WidReplayNext \/ HlcReplayNext

SpecBulk == InitBulk /\ [][NextBulk]_vars

\* the generator the bulk call was made on
BulkGen == IF bulk.kind = "wid" THEN wg ELSE hg["A"]

\* C23: next_n with n >= 0 succeeds and leaves the generator and the first n
\* entries of out as n successive next calls at the same readings leave them
\* (n = 0: generator unchanged); with n < 0 it fails and changes nothing.
C23_BulkIsRepeatedNext ==
    bulk.kind # ""
        => /\ bulk.n < 0 => (~bulk.ret /\ BulkGen = bulk.before /\ bulk.out = BulkOut)
           /\ bulk.n = 0 => (bulk.ret /\ BulkGen = bulk.before /\ bulk.out = BulkOut)
           /\ (bulk.n >= 0 /\ Len(bulk.refout) = bulk.n)
                 => /\ bulk.ret
                    /\ BulkGen = bulk.ref
                    /\ \A i \in 1..bulk.n : bulk.out[i] = bulk.refout[i]

\* a bulk call of MaxN that borrowed a tick was replayed by MaxN single calls
C23_Witness ==
    /\ bulk.kind = "wid" /\ bulk.n = MaxN /\ Len(bulk.refout) = MaxN
    /\ TickLess(TickHigh(wg.time_unit), wg.last_tick)
    /\ bulk.before.last_seq = 8

\* C24: when parse_wid or parse_hlc fails, the output view is as memset left
\* it: raw unset, calendar fields and counter 0, node and padding empty,
\* has_padding false.
C24_NoPartialOnFailure ==
    /\ (res.pw.done /\ ~res.pw.ret) => res.pw.out = ZeroWid
    /\ (res.ph.done /\ ~res.ph.ret) => res.ph.out = ZeroHlc

(***************************************************************************)
(* One WID generator, fresh from init, whose calls all read the tick T     *)
(***************************************************************************)
MaxEmits == 120     \* calls made at the one reading

FixedW == {1, 2}
FixedTicks(unit) == {TickZero, <<20496, TicksPerDay(unit) - 2>>, TickHigh(unit)}

InitFixedClock ==
    /\ \E W \in FixedW, unit \in Units :
          /\ wg = wid_gen_init_ex(W, 0, unit)
          /\ \E T \in FixedTicks(unit) :
                wout = [n |-> 0, now |-> T, last |-> "", first |-> ""]
    /\ IdleCodec
    /\ IdleHlc
    /\ IdleStream
    /\ IdleBulk
    /\ IdleSql

FixedClockNext ==
    /\ wout.n < MaxEmits
    /\ LET r == wid_gen_next(wg, wout.now, <<>>)
       IN  /\ wg' = r.gen
           /\ wout' = [wout EXCEPT !.n = @ + 1, !.last = r.out,
                                   !.first = IF wout.n = 0 THEN r.out ELSE @]
    /\ UNCHANGED <<sql, bulk, streamVars, codecVars, hlcVars>>

NextFixedClock == FixedClockNext

SpecFixedClock == InitFixedClock /\ [][NextFixedClock]_vars

RECURSIVE Pow10(_)
Pow10(n) == IF n = 0 THEN 1 ELSE 10 * Pow10(n - 1)

\* C25: after emit number i (from 0) of a fresh generator of width W at the
\* one reading T, the generator is at tick T + i div 10^W and sequence
\* i mod 10^W, and the text carries them; with W = 1 the twelfth text has a
\* timestamp greater than the first.
C25_FixedClockEmits ==
    wout.n > 0
        => LET i == wout.n - 1
               tick == TickAdd(wout.now, i \div Pow10(wg.W), wg.time_unit)
               seq == i % Pow10(wg.W)
               ts_len == wid_timestamp_len(wg.time_unit)
           IN  /\ wg.last_tick = tick
               /\ wg.last_seq = seq
               /\ wout.last = wid_fmt_tick(wg.time_unit, tick) \o "."
                                   \o ZeroFill(DecStr(seq), wg.W) \o "Z"
               /\ (wg.W = 1 /\ i = 11)
                     => StrLess(SubSeq(wout.first, 1, ts_len),
                                SubSeq(wout.last, 1, ts_len))

\* the twelfth emit of a generator of width 1, one tick after the reading
C25_Witness ==
    /\ wg.W = 1 /\ wout.n = 12
    /\ wg.last_tick = TickInc(wout.now, wg.time_unit) /\ wg.last_seq = 1

\* C27: a wid_gen_next that reads now > last_tick leaves (now, 0); otherwise
\* it leaves (last_tick, last_seq + 1) when last_seq < max_seq and
\* (last_tick + 1, 0) when last_seq = max_seq; W, Z, unit and max_seq stay.
C27_WidReferenceStep ==
    [][LET now == wout'.now
       IN  /\ IF TickLess(wg.last_tick, now)
              THEN wg'.last_tick = now /\ wg'.last_seq = 0
              ELSE IF wg.last_seq < wg.max_seq
              THEN wg'.last_tick = wg.last_tick /\ wg'.last_seq = wg.last_seq + 1
              ELSE /\ wg.last_seq = wg.max_seq
                   /\ wg'.last_tick = TickInc(wg.last_tick, wg.time_unit)
                   /\ wg'.last_seq = 0
           /\ <<wg'.W, wg'.Z, wg'.time_unit, wg'.max_seq>>
                  = <<wg.W, wg.Z, wg.time_unit, wg.max_seq>>
      ]_<<wg, wout>>

\* a second call read a later tick than the first and restarted the sequence
C27_Witness ==
    /\ wout.n = 2 /\ wout.now = TickHigh(wg.time_unit)
    /\ wg.last_tick = wout.now /\ wg.last_seq = 0

\* the greatest of three ticks
TickMax3(a, b, c) ==
    LET ab == IF TickLess(a, b) THEN b ELSE a
    IN  IF TickLess(ab, c) THEN c ELSE ab

\* (pt, base + 1), replaced by (pt + 1, 0) when base + 1 > max_lc
RefBump(pt, base, max_lc, unit) ==
    IF base >= max_lc THEN [pt |-> TickInc(pt, unit), lc |-> 0]
    ELSE [pt |-> pt, lc |-> base + 1]

\* the reference next of the HLC state machine
RefHlcNext(g, now) ==
    IF TickLess(g.pt, now) THEN [pt |-> now, lc |-> 0]
    ELSE RefBump(g.pt, g.lc, g.max_lc, g.time_unit)

\* the reference observe of the HLC state machine
RefHlcObserve(g, rpt, rlc, now) ==
    LET new_pt == TickMax3(g.pt, rpt, now)
    IN  IF new_pt = g.pt /\ new_pt = rpt
        THEN RefBump(new_pt, IF g.lc > rlc THEN g.lc ELSE rlc, g.max_lc, g.time_unit)
        ELSE IF new_pt = g.pt THEN RefBump(new_pt, g.lc, g.max_lc, g.time_unit)
        ELSE IF new_pt = rpt THEN RefBump(new_pt, rlc, g.max_lc, g.time_unit)
        ELSE [pt |-> new_pt, lc |-> 0]

\* C28 as stated: every hlc_wid_gen_next and every accepted hlc_wid_observe
\* leaves the (pt, lc) the reference state machine computes from the state
\* it found, the remote stamp and a reading of the wall clock.
C28_HlcReferenceStep ==
    [][LET i == hout'.who
           g == hg[i]
           after == [pt |-> hg'[i].pt, lc |-> hg'[i].lc]
       IN  /\ hout'.op # "trap"
           /\ hout'.op = "next"
                 => \E now \in NowSet(g.time_unit) : after = RefHlcNext(g, now)
           /\ (hout'.op = "observe" /\ hout'.ret)
                 => \E now \in NowSet(g.time_unit) :
                        after = RefHlcObserve(g, hout'.rpt, hout'.rlc, now)
      ]_<<hg, hout>>

\* C26: with Z = 0, a string validate_wid accepts ends at its 'Z' (length =
\* timestamp length + W + 2), and a string validate_hlc accepts has no '-'
\* after the one that opens the node.
C26_NoPaddingWhenZ0 ==
    in_Z = 0
        => /\ (res.vw.done /\ res.vw.ret)
                 => Len(in_s) = (IF in_unit = WID_TIME_MS THEN 18 ELSE 15) + in_W + 2
           /\ (res.vh.done /\ res.vh.ret)
                 => \A i \in (BaseLen + 1)..(Len(in_s) - 1) : CharAt(in_s, i) # "-"

\* with Z = 0 both validators refused an ID that ends in a '-' and nothing
\* after it
C26_Witness ==
    /\ in_Z = 0 /\ in_W = 4 /\ in_unit = WID_TIME_SEC
    /\ in_s \in {"20260212T091530.0042Z-", "20260212T091530.0042Z-node01-"}
    /\ res.vw.done /\ ~res.vw.ret
    /\ res.vh.done /\ ~res.vh.ret

(***************************************************************************)
(* The validators applied to one string under each time unit               *)
(***************************************************************************)
InitUnits ==
    /\ in_s \in Inputs
    /\ in_W \in CodecW
    /\ in_Z \in CodecZ
    /\ in_unit = WID_TIME_SEC
    /\ res = [u \in Units |-> [vw |-> NoCall, vh |-> NoCall]]
    /\ IdleWid
    /\ IdleHlc
    /\ IdleStream
    /\ IdleBulk
    /\ IdleSql

ValidateWidUnder(u) ==
    /\ ~res[u].vw.done
    /\ res' = [res EXCEPT ![u].vw = [done |-> TRUE,
                                     ret |-> wid_validate_ex(in_s, in_W, in_Z, u)]]
    /\ in_unit' = u
    /\ UNCHANGED <<sql, bulk, streamVars, in_s, in_W, in_Z, widVars, hlcVars>>

ValidateHlcUnder(u) ==
    /\ ~res[u].vh.done
    /\ res' = [res EXCEPT ![u].vh = [done |-> TRUE,
                                     ret |-> hlc_wid_validate_ex(in_s, in_W, in_Z, u)]]
    /\ in_unit' = u
    /\ UNCHANGED <<sql, bulk, streamVars, in_s, in_W, in_Z, widVars, hlcVars>>

NextUnits == (\E u \in Units : ValidateWidUnder(u)) \/ (\E u \in Units : ValidateHlcUnder(u))

SpecUnits == InitUnits /\ [][NextUnits]_vars

\* the first len characters of in_s are 8 digits, 'T' and len - 9 digits, and
\* the next one is '.'
TimestampField(len) ==
    /\ Len(in_s) > len
    /\ \A i \in (0..7) \cup (9..(len - 1)) : CharAt(in_s, i) \in StrChars(DigitStr)
    /\ CharAt(in_s, 8) = "T"
    /\ CharAt(in_s, len) = "."

\* C29: a string accepted under sec has a timestamp field of 15 characters
\* followed by '.', one accepted under ms a field of 18 characters followed
\* by '.', and neither validator accepts one string under both units.
C29_UnitFixesWidth ==
    /\ \A v \in {"vw", "vh"} :
          /\ res[WID_TIME_SEC][v].ret => TimestampField(15)
          /\ res[WID_TIME_MS][v].ret => TimestampField(18)
          /\ ~(res[WID_TIME_SEC][v].ret /\ res[WID_TIME_MS][v].ret)

\* a timestamp with two millisecond digits, and one with four, was refused
\* by validate_wid under both units
C29_Witness ==
    /\ in_s \in {"20260212T09153012.0042Z", "20260212T0915301234.0042Z"}
    /\ in_W = 4 /\ in_Z = 0
    /\ \A u \in Units : res[u].vw.done /\ ~res[u].vw.ret

\* C31: the first poll of a stream that init has just set up emits, whatever
\* the count, the interval and the monotonic reading.
C31_FirstPollEmits ==
    [][sout.op = "init" => (sout'.ret /\ sout'.emitted = 1 /\ sout'.buf # "")]_<<st, sout>>

\* the first emit of a stream of interval 2 ms came at the reading 1 ms
C31_Witness ==
    /\ sout.op = "poll" /\ sout.ret /\ sout.emitted = 1
    /\ sout.interval_ms = 2 /\ sout.now_ns = NsPerMs /\ sout.last_ok_ns = NsPerMs

(***************************************************************************)
(* The paced stream with a caller that keeps polling while the monotonic   *)
(* clock advances                                                          *)
(***************************************************************************)
\* a poll at a later monotonic reading than the last poll
PollLater == NextStream /\ sout'.now_ns > sout.now_ns

\* ENABLED PollLater: the clock has a later reading and the generator of
\* the stream is within the modelled ticks
CanPollLater ==
    /\ \E d \in MonoSteps : d > 0 /\ sout.now_ns + d <= MaxMonoNs
    /\ IF st.kind = "wid"
       THEN Within(st.gen.last_tick, TickHigh(st.gen.time_unit), st.gen.time_unit)
       ELSE st.kind = "hlc" /\ HlcRunning(st.gen)

\* weak fairness of PollLater, WF_vars(PollLater), with ENABLED written out;
\* every step of NextStream that raises sout.now_ns is a PollLater step
FairPolling ==
    \/ []<>(~CanPollLater)
    \/ []<><<sout'.now_ns > sout.now_ns>>_vars

\* the streams of finite count
InitStreamFair == InitStream /\ sout.count > 0

SpecStreamFair == InitStreamFair /\ [][NextStream]_vars /\ FairPolling

\* C32: a stream of finite count c > 0 that is polled again and again at
\* advancing monotonic readings is eventually done, having emitted exactly c
\* times.
C32_EventuallyDone ==
    (sout.count > 0) ~> (StreamDone(st) /\ sout.emitted = sout.count)

\* the poll that emitted the last ID of a stream of MaxCount and 2 ms
C32_Witness ==
    /\ sout.count = MaxCount /\ sout.interval_ms = 2
    /\ sout.op = "poll" /\ sout.ret /\ sout.emitted = MaxCount /\ StreamDone(st)

(***************************************************************************)
(* wid_random_hex and its two buffers: raw[(WID_MAX_Z / 2) + 1] inside the *)
(* function, and the caller's pad[WID_MAX_Z + 1]                           *)
(***************************************************************************)
RAW_BUF == (WID_MAX_Z \div 2) + 1
PAD_BUF == WID_MAX_Z + 1

\* the indices of raw that fread (or the rand loop) writes and the last
\* loop reads
wid_random_hex_raw_indices(len) == 0..(len - 1)

\* the indices of buf written: the digits and the terminating NUL
wid_random_hex_buf_indices(len) == 0..len

\* the outcomes of a call: the digits written to buf, or, when the call
\* writes past the end of raw (undefined behaviour), either the digits or a
\* call that does not return (trap: the process crashes or hangs)
wid_random_hex_call(bytes, len) ==
    IF \E i \in wid_random_hex_raw_indices(len) : i >= RAW_BUF
    THEN {[trap |-> FALSE, out |-> wid_random_hex(bytes, len)],
          [trap |-> TRUE, out |-> ""]}
    ELSE {[trap |-> FALSE, out |-> wid_random_hex(bytes, len)]}

HexZ == 0..WID_MAX_Z

\* the random sources: all bytes equal, or two bytes alternating
HexBytes(Z) ==
    {[i \in 1..Z |-> b] : b \in Bytes \cup {0}}
        \cup {[i \in 1..Z |-> IF i % 2 = 0 THEN 10 ELSE 255]}

NoHexCall == [op |-> "", len |-> 0, trap |-> FALSE, last |-> "", raw_hi |-> -1,
              buf_hi |-> -1]

InitRandomHex ==
    /\ wg = wid_gen_init_ex(WID_DEFAULT_W, WID_DEFAULT_Z, WID_TIME_SEC)
    /\ wout = NoHexCall
    /\ IdleCodec
    /\ IdleHlc
    /\ IdleStream
    /\ IdleBulk
    /\ IdleSql

\* wid_random_hex(pad, Z) as wid_gen_next calls it for a generator of
\* padding length Z
RandomHex ==
    /\ wout.op = ""
    /\ \E Z \in HexZ :
          \E bytes \in HexBytes(Z) :
              \E r \in wid_random_hex_call(bytes, Z) :
                  wout' = [op |-> "wid_random_hex", len |-> Z, trap |-> r.trap,
                           last |-> r.out,
                           raw_hi |-> IF Z = 0 THEN -1
                                      ELSE CHOOSE i \in wid_random_hex_raw_indices(Z) :
                                             \A j \in wid_random_hex_raw_indices(Z) : j <= i,
                           buf_hi |-> CHOOSE i \in wid_random_hex_buf_indices(Z) :
                                        \A j \in wid_random_hex_buf_indices(Z) : j <= i]
    /\ UNCHANGED <<sql, bulk, streamVars, codecVars, wg, hlcVars>>

NextRandomHex == RandomHex

SpecRandomHex == InitRandomHex /\ [][NextRandomHex]_vars

\* C33 as stated: for every Z in 0..64 the call returns Z lowercase hex
\* digits, and every index of raw and of the output buffer it touches is
\* inside the buffer.
C33_RandomHexInBounds ==
    wout.op = "wid_random_hex"
        => /\ ~wout.trap
           /\ Len(wout.last) = wout.len
           /\ StrChars(wout.last) \subseteq StrChars(hexdigits)
           /\ wout.raw_hi < RAW_BUF
           /\ wout.buf_hi < PAD_BUF

(***************************************************************************)
(* wid_fmt_tick applied to ticks on both sides of the epoch                *)
(***************************************************************************)
FmtDays == {-2, -1, 0, 1, 20496}

\* ticks of the day at the start, around the first seconds and at the end
FmtOffsets(unit) ==
    LET D == TicksPerDay(unit)
    IN  {0, 1, 2, 499, 999, 1000, 1001, 1999, 59999, D - 1001, D - 1000, D - 999,
         D - 2, D - 1}

NoFmtCall == [op |-> "", tick |-> TickZero, sec |-> TickZero, ms |-> 0, last |-> ""]

InitFmtTick ==
    /\ wg = wid_gen_init_ex(WID_DEFAULT_W, WID_DEFAULT_Z, WID_TIME_SEC)
    /\ wout = NoFmtCall
    /\ IdleCodec
    /\ IdleHlc
    /\ IdleStream
    /\ IdleBulk
    /\ IdleSql

FmtTick ==
    /\ wout.op = ""
    /\ \E unit \in Units :
          \E day \in FmtDays, off \in FmtOffsets(unit) :
              LET tick == <<day, off>>
              IN  /\ in_unit' = unit
                  /\ wout' = [op |-> "wid_fmt_tick", tick |-> tick,
                              sec |-> wid_fmt_tick_split(unit, tick).sec,
                              ms |-> wid_fmt_tick_split(unit, tick).ms,
                              last |-> wid_fmt_tick(unit, tick)]
    /\ UNCHANGED <<sql, bulk, streamVars, in_s, in_W, in_Z, res, wg, hlcVars>>

NextFmtTick == FmtTick

SpecFmtTick == InitFmtTick /\ [][NextFmtTick]_vars

\* C34 as stated: a millisecond tick is split into seconds = floor(tick /
\* 1000) and 0 <= ms <= 999 with seconds * 1000 + ms = tick (the tick being
\* day * 86400000 + offset, the seconds day * 86400 + second of day).
C34_EuclideanSplit ==
    (wout.op = "wid_fmt_tick" /\ in_unit = WID_TIME_MS)
        => /\ 0 <= wout.ms /\ wout.ms <= 999
           /\ wout.sec[1] = wout.tick[1]
           /\ wout.sec[2] * 1000 + wout.ms = wout.tick[2]

(***************************************************************************)
(* The command line's healthcheck, in flag mode (parse_opts) and in        *)
(* canonical key=value mode (parse_canonical, run_canonical)               *)
(***************************************************************************)
\* the checks parse_opts makes once the flags are read
parse_opts(kind, node, W, Z) ==
    IF kind # "wid" /\ kind # "hlc" THEN FALSE
    ELSE IF W <= 0 \/ Z < 0 THEN FALSE
    ELSE IF W > WID_MAX_W \/ Z > WID_MAX_Z THEN FALSE
    ELSE IF kind = "hlc" /\ ~wid_valid_node(node) THEN FALSE
    ELSE TRUE

\* the checks parse_canonical makes on W and Z (N, L and the rest at their
\* defaults)
parse_canonical(W, Z) ==
    IF W <= 0 \/ Z < 0 THEN FALSE ELSE TRUE

\* wid_gen_next with the outcomes of its call of wid_random_hex
wid_gen_next_outcomes(gen, now_tick, bytes) ==
    {[trap |-> h.trap, out |-> IF h.trap THEN "" ELSE wid_gen_next(gen, now_tick, bytes).out]
        : h \in wid_random_hex_call(bytes, gen.Z)}

hlc_wid_gen_next_outcomes(gen, now, bytes) ==
    {[trap |-> h.trap, out |-> IF h.trap THEN "" ELSE hlc_wid_gen_next(gen, now, bytes).out]
        : h \in wid_random_hex_call(bytes, gen.Z)}

\* cmd_healthcheck for the options o: the outcomes [trap, ran, ok, id] and
\* the W and Z the generator held (ran = FALSE: return 1 before any emit)
cmd_healthcheck(o, now, bytes) ==
    IF o.kind = "wid"
    THEN LET g == wid_gen_init_ex(o.W, o.Z, o.time_unit)
         IN  {[trap |-> r.trap, ran |-> TRUE, id |-> r.out, genW |-> g.W, genZ |-> g.Z,
               ok |-> ~r.trap /\ wid_validate_ex(r.out, o.W, o.Z, o.time_unit)]
                 : r \in wid_gen_next_outcomes(g, now, bytes)}
    ELSE LET i == hlc_wid_gen_init_ex(<<>>, o.node, o.W, o.Z, o.time_unit)
         IN  IF ~i.ret
             THEN {[trap |-> FALSE, ran |-> FALSE, id |-> "", genW |-> 0, genZ |-> 0,
                    ok |-> FALSE]}
             ELSE {[trap |-> r.trap, ran |-> TRUE, id |-> r.out, genW |-> i.gen.W,
                    genZ |-> i.gen.Z,
                    ok |-> ~r.trap /\ hlc_wid_validate_ex(r.out, o.W, o.Z, o.time_unit)]
                      : r \in hlc_wid_gen_next_outcomes(i.gen, now, bytes)}

HLC_DEFAULT_NODE == "c"

CliW == {0, 1, 4, WID_MAX_W, WID_MAX_W + 1}
CliZ == {0, 6, RAW_BUF, WID_MAX_Z, WID_MAX_Z + 1}
CliNodes == {HLC_DEFAULT_NODE, "node01", "bad-node"}

NoCli == [op |-> "", mode |-> "", accepted |-> FALSE, o |-> <<>>, trap |-> FALSE,
          ran |-> FALSE, ok |-> FALSE, id |-> "", genW |-> 0, genZ |-> 0]

InitCli ==
    /\ wg = wid_gen_init_ex(WID_DEFAULT_W, WID_DEFAULT_Z, WID_TIME_SEC)
    /\ wout = NoCli
    /\ IdleCodec
    /\ IdleHlc
    /\ IdleStream
    /\ IdleBulk
    /\ IdleSql

\* wid healthcheck [--kind k] [--node n] [--W w] [--Z z] [--T u]
HealthcheckFlags ==
    /\ wout.op = ""
    /\ \E kind \in {"wid", "hlc"}, node \in CliNodes, W \in CliW, Z \in CliZ,
          unit \in Units :
          LET o == [kind |-> kind, node |-> node, W |-> W, Z |-> Z, time_unit |-> unit]
          IN  IF ~parse_opts(kind, node, W, Z)
              THEN wout' = [NoCli EXCEPT !.op = "healthcheck", !.mode = "flags", !.o = o]
              ELSE \E now \in NowSet(unit), bytes \in HexBytes(IF Z > WID_MAX_Z
                                                                 THEN WID_MAX_Z ELSE Z) :
                       \E r \in cmd_healthcheck(o, now, bytes) :
                           wout' = [op |-> "healthcheck", mode |-> "flags",
                                    accepted |-> TRUE, o |-> o, trap |-> r.trap,
                                    ran |-> r.ran, ok |-> r.ok, id |-> r.id,
                                    genW |-> r.genW, genZ |-> r.genZ]
    /\ UNCHANGED <<sql, bulk, streamVars, codecVars, wg, hlcVars>>

\* wid A=healthcheck W=w Z=z T=u: run_canonical sets kind "wid" and the
\* default node
HealthcheckCanonical ==
    /\ wout.op = ""
    /\ \E W \in CliW, Z \in CliZ, unit \in Units :
          LET o == [kind |-> "wid", node |-> HLC_DEFAULT_NODE, W |-> W, Z |-> Z,
                    time_unit |-> unit]
          IN  IF ~parse_canonical(W, Z)
              THEN wout' = [NoCli EXCEPT !.op = "healthcheck", !.mode = "canonical",
                                         !.o = o]
              ELSE \E now \in NowSet(unit), bytes \in HexBytes(IF Z > WID_MAX_Z
                                                                 THEN WID_MAX_Z ELSE Z) :
                       \E r \in cmd_healthcheck(o, now, bytes) :
                           wout' = [op |-> "healthcheck", mode |-> "canonical",
                                    accepted |-> TRUE, o |-> o, trap |-> r.trap,
                                    ran |-> r.ran, ok |-> r.ok, id |-> r.id,
                                    genW |-> r.genW, genZ |-> r.genZ]
    /\ UNCHANGED <<sql, bulk, streamVars, codecVars, wg, hlcVars>>

NextCli == HealthcheckFlags \/ HealthcheckCanonical

SpecCli == InitCli /\ [][NextCli]_vars

\* C35 as stated: for every option set the command line accepts, in either
\* mode, healthcheck emits with the W and Z it then validates under, and
\* reports ok = true.
C35_HealthcheckOk ==
    (wout.op = "healthcheck" /\ wout.accepted)
        => /\ ~wout.trap
           /\ wout.ran
           /\ wout.genW = wout.o.W /\ wout.genZ = wout.o.Z
           /\ wout.ok

(***************************************************************************)
(* A stream structure that is initialised (again) and then polled          *)
(***************************************************************************)
ReuseCounts == {-1, 0, 2}
ReuseIntervals == {-1, 0, 1}
ReuseNodes == {"n1", "bad-node"}

\* what the caller's structure holds before the init call: zeroes, or a WID
\* or an HLC stream that has emitted once of two
ReuseStreams ==
    PriorStreams \cup
    {[kind |-> "hlc",
      gen |-> hlc_wid_gen_init_ex(ZeroStream.gen, "n1", 1, 0, WID_TIME_SEC).gen,
      remaining |-> 1, interval_ms |-> 1, next_due_ns |-> NsPerMs,
      initialized |-> TRUE]}

\* init_ret is what the init call returned, polls the polls made since, ret,
\* buf and emitted as in NoPoll
NoReuse == [op |-> "", init_ret |-> FALSE, count |-> 0, interval_ms |-> 0, node |-> "",
            polls |-> 0, ret |-> FALSE, now_ns |-> 0, buf |-> "", emitted |-> 0,
            done |-> FALSE]

InitReuse ==
    /\ st \in ReuseStreams
    /\ sout = NoReuse
    /\ IdleCodec
    /\ IdleWid
    /\ IdleHlc
    /\ IdleBulk
    /\ IdleSql

WidStreamReinit ==
    /\ sout.op = ""
    /\ st.kind # "hlc"
    /\ \E unit \in Units, count \in ReuseCounts, interval_ms \in ReuseIntervals :
          LET r == wid_async_wid_stream_init(st, 1, 0, unit, count, interval_ms)
          IN  /\ st' = r.s
              /\ sout' = [NoReuse EXCEPT !.op = "wid", !.init_ret = r.ret,
                                         !.count = count, !.interval_ms = interval_ms,
                                         !.done = wid_async_wid_stream_done(r.s)]
    /\ UNCHANGED <<sql, bulk, codecVars, widVars, hlcVars>>

HlcStreamReinit ==
    /\ sout.op = ""
    /\ st.kind # "wid"
    /\ \E node \in ReuseNodes, unit \in Units, count \in ReuseCounts,
          interval_ms \in ReuseIntervals :
          LET r == wid_async_hlc_stream_init(st, node, 1, 0, unit, count, interval_ms)
          IN  /\ st' = r.s
              /\ sout' = [NoReuse EXCEPT !.op = "hlc", !.init_ret = r.ret,
                                         !.count = count, !.interval_ms = interval_ms,
                                         !.node = node,
                                         !.done = wid_async_hlc_stream_done(r.s)]
    /\ UNCHANGED <<sql, bulk, codecVars, widVars, hlcVars>>

WidStreamRepoll ==
    /\ sout.op = "wid"
    /\ st.initialized
          => Within(st.gen.last_tick, TickHigh(st.gen.time_unit), st.gen.time_unit)
    /\ \E now_ns \in MonoReadings :
          \E now_tick \in NowSet(IF st.initialized THEN st.gen.time_unit ELSE WID_TIME_SEC),
             raw \in RawSet(0) :
              LET r == wid_async_wid_stream_poll(st, sout.buf, now_ns, now_tick, raw)
              IN  /\ st' = r.s
                  /\ sout' = [sout EXCEPT !.polls = 1, !.ret = r.ret, !.now_ns = now_ns,
                                          !.buf = r.buf,
                                          !.emitted = IF r.ret THEN @ + 1 ELSE @,
                                          !.done = wid_async_wid_stream_done(r.s)]
    /\ UNCHANGED <<sql, bulk, codecVars, widVars, hlcVars>>

HlcStreamRepoll ==
    /\ sout.op = "hlc"
    /\ st.initialized => HlcRunning(st.gen)
    /\ \E now_ns \in MonoReadings :
          \E now_tick \in NowSet(IF st.initialized THEN st.gen.time_unit ELSE WID_TIME_SEC),
             raw \in RawSet(0) :
              LET r == wid_async_hlc_stream_poll(st, sout.buf, now_ns, now_tick, raw)
              IN  /\ st' = r.s
                  /\ sout' = [sout EXCEPT !.polls = 1, !.ret = r.ret, !.now_ns = now_ns,
                                          !.buf = r.buf,
                                          !.emitted = IF r.ret THEN @ + 1 ELSE @,
                                          !.done = wid_async_hlc_stream_done(r.s)]
    /\ UNCHANGED <<sql, bulk, codecVars, widVars, hlcVars>>

NextReuse == WidStreamReinit \/ HlcStreamReinit \/ WidStreamRepoll \/ HlcStreamRepoll

SpecReuse == InitReuse /\ [][NextReuse]_vars

\* C36 as stated: once a stream init call has returned failure, done() is
\* true and no poll of that stream emits, whatever the structure held before
\* the call.
C36_FailedInitNeverEmits ==
    (sout.op # "" /\ ~sout.init_ret) => (sout.done /\ sout.emitted = 0 /\ ~sout.ret)

(***************************************************************************)
(* SQL-backed allocation: processes running sql_allocate_next_wid on one   *)
(* state key (one W, Z and T), each statement one step                     *)
(***************************************************************************)
MaxProcs == 3       \* the processes allocating concurrently
MaxAttempts == 2    \* the attempts of one allocation (64 in the code)

Procs == 1..MaxProcs

SQL_W == 1
SQL_Z == 0
SQL_T == WID_TIME_SEC

\* CREATE TABLE IF NOT EXISTS; INSERT OR IGNORE ... VALUES(key, 0, -1)
sql_ensure_state(db) ==
    IF db.present THEN db
    ELSE [present |-> TRUE, last_tick |-> TickZero, last_seq |-> -1]

\* SELECT last_tick, last_seq WHERE k = key
sql_load_state(db) == [tick |-> db.last_tick, seq |-> db.last_seq]

\* sql_compare_and_swap_state whose UPDATE has no WHERE on the old values
sql_compare_and_swap_state_nowhere(db, old_tick, old_seq, tick, seq) ==
    IF db.present
    THEN [db |-> [db EXCEPT !.last_tick = tick, !.last_seq = seq], changes |-> 1]
    ELSE [db |-> db, changes |-> 0]

\* UPDATE ... SET last_tick, last_seq WHERE k = key AND last_tick = old_tick
\* AND last_seq = old_seq; SELECT changes()
sql_compare_and_swap_state(db, old_tick, old_seq, tick, seq) ==
    IF db.present /\ db.last_tick = old_tick /\ db.last_seq = old_seq
    THEN [db |-> [db EXCEPT !.last_tick = tick, !.last_seq = seq], changes |-> 1]
    ELSE [db |-> db, changes |-> 0]

\* a process before sql_ensure_state; ret is what the call returned once pc
\* is "done"; swapped: its own compare-and-swap reported one changed row
NewProc == [pc |-> "ensure", attempt |-> 0, last_tick |-> TickZero, last_seq |-> -1,
            g |-> wid_gen_init_ex(SQL_W, SQL_Z, SQL_T), out |-> "", ret |-> -1,
            swapped |-> FALSE]

\* the row as earlier runs may have left it
PriorRows ==
    {NoSql.db,
     [present |-> TRUE, last_tick |-> TickZero, last_seq |-> -1],
     [present |-> TRUE, last_tick |-> TickHigh(SQL_T), last_seq |-> 8]}

InitSql ==
    /\ sql \in {[db |-> db, proc |-> [p \in Procs |-> NewProc], granted |-> {}]
                    : db \in PriorRows}
    /\ IdleCodec
    /\ IdleWid
    /\ IdleHlc
    /\ IdleStream
    /\ IdleBulk

SqlEnsureState ==
    /\ \E p \in Procs :
          /\ sql.proc[p].pc = "ensure"
          /\ sql' = [sql EXCEPT !.db = sql_ensure_state(@), !.proc[p].pc = "load"]
    /\ UNCHANGED <<bulk, streamVars, codecVars, widVars, hlcVars>>

\* the load of one attempt and the wid_gen_next made from what it read
SqlLoadState ==
    /\ \E p \in Procs, now \in NowSet(SQL_T), raw \in RawSet(SQL_Z) :
          /\ sql.proc[p].pc = "load"
          /\ LET l == sql_load_state(sql.db)
                 r == wid_gen_next([wid_gen_init_ex(SQL_W, SQL_Z, SQL_T)
                                       EXCEPT !.last_tick = l.tick, !.last_seq = l.seq],
                                   now, raw)
             IN  sql' = [sql EXCEPT !.proc[p] = [@ EXCEPT !.pc = "cas",
                                                         !.last_tick = l.tick,
                                                         !.last_seq = l.seq,
                                                         !.g = r.gen, !.out = r.out]]
    /\ UNCHANGED <<bulk, streamVars, codecVars, widVars, hlcVars>>

\* the compare-and-swap of one attempt, and the end of the loop body
SqlCompareAndSwap ==
    /\ \E p \in Procs :
          /\ sql.proc[p].pc = "cas"
          /\ LET me == sql.proc[p]
                 c == sql_compare_and_swap_state(sql.db, me.last_tick, me.last_seq,
                                                 me.g.last_tick, me.g.last_seq)
             IN  sql' =
                   IF c.changes = 1
                   THEN [db |-> c.db,
                         proc |-> [sql.proc EXCEPT ![p] = [@ EXCEPT !.pc = "done",
                                                                     !.ret = 0,
                                                                     !.swapped = TRUE]],
                         granted |-> sql.granted \cup {<<me.g.last_tick, me.g.last_seq>>}]
                   ELSE IF me.attempt + 1 < MaxAttempts
                   THEN [sql EXCEPT !.db = c.db, !.proc[p].pc = "load",
                                    !.proc[p].attempt = @ + 1]
                   ELSE [sql EXCEPT !.db = c.db, !.proc[p].pc = "done",
                                    !.proc[p].attempt = @ + 1, !.proc[p].ret = -1]
    /\ UNCHANGED <<bulk, streamVars, codecVars, widVars, hlcVars>>

\* sqlite_exec_capture returns -1 (sqlite3 could not run or exited non-zero):
\* the allocation returns -1; at the compare-and-swap the UPDATE may have
\* been applied all the same
SqlError ==
    /\ \E p \in Procs :
          /\ sql.proc[p].pc \in {"ensure", "load", "cas"}
          /\ LET me == sql.proc[p]
                 c == sql_compare_and_swap_state(sql.db, me.last_tick, me.last_seq,
                                                 me.g.last_tick, me.g.last_seq)
             IN  \E db \in {sql.db} \cup (IF me.pc = "cas" THEN {c.db} ELSE {}) :
                     sql' = [sql EXCEPT !.db = db, !.proc[p].pc = "done",
                                        !.proc[p].ret = -1]
    /\ UNCHANGED <<bulk, streamVars, codecVars, widVars, hlcVars>>

NextSql == SqlEnsureState \/ SqlLoadState \/ SqlCompareAndSwap \/ SqlError

SpecSql == InitSql /\ [][NextSql]_vars

\* the allocation of process p has returned 0
SqlSucceeded(p) == sql.proc[p].pc = "done" /\ sql.proc[p].ret = 0

\* the stored pair of db1 is below that of db2
RowLess(db1, db2) == LexLess(db1.last_tick, db1.last_seq, db2.last_tick, db2.last_seq)

\* C37: under any interleaving of processes allocating on one state key,
\* every change of the stored (last_tick, last_seq) is to a strictly
\* greater pair, made by a compare-and-swap from the value its process
\* loaded; an allocation returns success only after its own compare-and-swap
\* succeeded; and no two successful allocations return the same (tick, seq).
C37_SqlAllocation ==
    /\ [][(sql.db.present /\ sql'.db # sql.db)
              => /\ RowLess(sql.db, sql'.db)
                 /\ \E p \in Procs :
                       /\ sql.proc[p].pc = "cas"
                       /\ sql.proc[p].last_tick = sql.db.last_tick
                       /\ sql.proc[p].last_seq = sql.db.last_seq
                       /\ sql'.db.last_tick = sql.proc[p].g.last_tick
                       /\ sql'.db.last_seq = sql.proc[p].g.last_seq]_sql
    /\ [](\A p \in Procs :
             SqlSucceeded(p)
                 => /\ sql.proc[p].swapped
                    /\ \A q \in Procs \ {p} :
                          SqlSucceeded(q)
                              => <<sql.proc[p].g.last_tick, sql.proc[p].g.last_seq>>
                                    # <<sql.proc[q].g.last_tick, sql.proc[q].g.last_seq>>)

\* all processes allocated, one of them on its second attempt, across a
\* rollover of the sequence
C37_Witness ==
    /\ \A p \in Procs : SqlSucceeded(p)
    /\ \E p \in Procs : sql.proc[p].attempt = 1
    /\ \E p \in Procs : sql.proc[p].g.last_seq = 0

(***************************************************************************)
(* An HLC generator initialised with a node of any length, then emitting   *)
(***************************************************************************)
NodeLens == {1, 2, NODE_BUF - 1, NODE_BUF, NODE_BUF + 1}
GenNodes == {Rep("n", k) : k \in NodeLens} \cup {"A_z09", "bad-node", ""}
NodeEmits == 3      \* the IDs one generator emits

\* node is the string passed to init, out the last ID emitted
NoNodeCall == [op |-> "", ret |-> FALSE, node |-> "", emits |-> 0, out |-> ""]

\* the NODE segment of an ID emitted by gen: what stands between "Z-" and
\* the padding
NodeSegment(gen, id) ==
    SubSeq(id, wid_timestamp_len(gen.time_unit) + 1 + gen.W + 2 + 1,
           IF gen.Z > 0 THEN Len(id) - gen.Z - 1 ELSE Len(id))

InitNode ==
    /\ hg = <<>>
    /\ hout = NoNodeCall
    /\ hmsg = NoMsg
    /\ hseen = <<>>
    /\ IdleCodec
    /\ IdleWid
    /\ IdleStream
    /\ IdleBulk
    /\ IdleSql

HlcInitNode ==
    /\ hout.op = ""
    /\ \E node \in GenNodes, W \in GenW, Z \in GenZ, unit \in Units :
          LET r == hlc_wid_gen_init_ex(<<>>, node, W, Z, unit)
          IN  /\ hg = <<>>
              /\ hg' = r.gen
              /\ hout' = [NoNodeCall EXCEPT !.op = "hlc_wid_gen_init_ex", !.ret = r.ret,
                                            !.node = node]
    /\ UNCHANGED <<sql, bulk, streamVars, codecVars, widVars, hmsg, hseen>>

HlcNodeNext ==
    /\ hout.op # "" /\ hout.ret
    /\ hout.emits < NodeEmits
    /\ \E now \in NowSet(hg.time_unit), raw \in RawSet(hg.Z) :
          LET r == hlc_wid_gen_next(hg, now, raw)
          IN  /\ hg' = r.gen
              /\ hout' = [hout EXCEPT !.op = "hlc_wid_gen_next", !.emits = @ + 1,
                                      !.out = r.out]
    /\ UNCHANGED <<sql, bulk, streamVars, codecVars, widVars, hmsg, hseen>>

NextNode == HlcInitNode \/ HlcNodeNext

SpecNode == InitNode /\ [][NextNode]_vars

\* C38 as stated: the NODE segment of every ID an HLC generator emits is the
\* node string its init was given, for every node init accepts, whatever its
\* length.
C38_NodeSegment ==
    hout.op = "hlc_wid_gen_next" => NodeSegment(hg, hout.out) = hout.node

\* C39 as stated: for every accepted input (remote_pt >= 0, remote_lc >= 0, up
\* to the top of the int64_t range) hlc_wid_observe completes without a signed
\* overflow, and leaves 0 <= lc <= max_lc and a pt that is not below the one
\* it found.
C39_ObserveNoOverflow ==
    [][(hout'.op \in {"observe", "trap"}
            /\ ~TickNegative(hout'.rpt) /\ hout'.rlc >= 0)
          => /\ hout'.op = "observe"
             /\ hout'.ret
             /\ 0 <= hg'[hout'.who].lc
             /\ hg'[hout'.who].lc <= hg'[hout'.who].max_lc
             /\ ~TickLess(hg'[hout'.who].pt, hg[hout'.who].pt)]_<<hg, hout>>

====
